---- MODULE Spec2Model ----
(***************************************************************************)
(* Atlas OS backend gateway: the credential (API key) routes with their    *)
(* Redis list cache, and the 0x swap proxy with platform fee injection.    *)
(*                                                                         *)
(* Text is modelled as a sequence of atoms (characters, or whole words     *)
(* where the code never looks inside them); "" is <<>>.  An optional value *)
(* (undefined | v) is a sequence of length 0 or 1.                         *)
(***************************************************************************)
EXTENDS Integers, Sequences, FiniteSets, TLC

VARIABLES
    api_keys,   \* rows of table api_keys
    nextId,     \* number of rows ever inserted (gen_random_uuid is fresh)
    clock,      \* NOW() of the store; it advances between two INSERTs
    cache,      \* Redis: per user, <<>> (no entry) or <<stringified rows>>
    reqs,       \* per request slot: the handler's position and locals
    last,       \* the most recent response and the request it answers
    seen,       \* history: per List in flight, the key sets the store held since it started
    afterMut,   \* history: per List in flight, whether it started after a completed mutation
    mutated,    \* history: per user, a successful Issue or Revoke has completed
    returned,   \* history: per raw key, the number of responses that carried it
    completed,  \* history: ids of the credentials whose Issue has been answered
    overlap,    \* history: per user, two of the user's requests have been in flight together
    answered    \* history: the Revoke requests answered so far, in the order of their responses

keysVars == <<api_keys, nextId, clock, cache, reqs, last, seen, afterMut, mutated,
              returned, completed, overlap, answered>>

VARIABLES
    env,        \* process.env: each variable undefined (<<>>) or set (<<text>>)
    swap        \* the swap request being served: position, inputs, URL, response

swapVars == <<env, swap>>

VARIABLES
    first       \* history: the first upstream URL built, with the request it was built for

VARIABLES
    gw,             \* the gateway (/atlas-os) request being served
    compute_usage,  \* rows of table compute_usage
    denials         \* history: the responses apiKeyAuth has rejected requests with

gwVars == <<gw, compute_usage, denials>>

VARIABLES
    inst,               \* per instance of the service: its position in startup
    starts,             \* number of startups so far
    tables,             \* the tables that exist in the database
    schema_migrations,  \* names recorded in table schema_migrations
    executed            \* history: per migration, the number of times its SQL was executed

bootVars == <<inst, starts, tables, schema_migrations, executed>>

vars == <<keysVars, swapVars, first, gwVars, bootVars>>

----------------------------------------------------------------------------
(* Bounds *)

MaxReqs == 3        \* requests handled in one behaviour
MaxRandom == 2      \* distinct values randomBytes can take
MaxCallerFees == 2  \* entries in a caller's fee recipient or fee bps list
MaxExtras == 1      \* optional non-fee parameters in one swap query
MaxUsage == 2       \* usage events recorded in one behaviour
MaxInstances == 2   \* instances of the service that start against one database
MaxStarts == 3      \* startups in one behaviour

Slots == 1..MaxReqs
Users == {"u1", "u2"}

----------------------------------------------------------------------------
(* lib/keygen.ts *)

KeyBytes == 32
PrefixLen == 12

HexChars == <<"0", "1", "2", "3", "4", "5", "6", "7",
              "8", "9", "a", "b", "c", "d", "e", "f">>

\* Buffer.toString("hex"): two hex digits per byte
ToHex(bytes) ==
    [i \in 1..(2 * Len(bytes)) |->
        LET b == bytes[(i + 1) \div 2]
        IN  IF i % 2 = 1 THEN HexChars[(b \div 16) + 1] ELSE HexChars[(b % 16) + 1]]

\* randomBytes(32): the values the model draws from
RandomBytes == {[i \in 1..KeyBytes |-> b] : b \in 0..(MaxRandom - 1)}

generateApiKey(bytes) == <<"a", "t", "l", "_">> \o ToHex(bytes)

RawKeys == {generateApiKey(b) : b \in RandomBytes}

keyPrefix(key) == SubSeq(key, 1, PrefixLen)

\* SHA-256 hex digest, as a symbolic one-way term over the key
hashKey(key) == <<"sha256(">> \o key \o <<")">>

----------------------------------------------------------------------------
(* Text helpers *)

IsSpace(c) == c = " "

RECURSIVE TrimStart(_)
TrimStart(s) ==
    IF s # <<>> /\ IsSpace(Head(s)) THEN TrimStart(Tail(s)) ELSE s

RECURSIVE TrimEnd(_)
TrimEnd(s) ==
    IF s # <<>> /\ IsSpace(s[Len(s)]) THEN TrimEnd(SubSeq(s, 1, Len(s) - 1)) ELSE s

\* String.prototype.trim
Trim(s) == TrimEnd(TrimStart(s))

Laptop == <<"l", "a", "p", "t", "o", "p">>

\* request bodies of POST /keys: name undefined, "", " ", "laptop", " laptop "
Names == {<<>>, <<<<>>>>, <<<<" ">>>>, <<Laptop>>, <<<<" ">> \o Laptop \o <<" ">>>>}

----------------------------------------------------------------------------
(* Responses *)

Json(status, body) == [status |-> status, body |-> body]

DbErrorMsg == <<"pg: query failed">>
RedisErrorMsg == <<"redis: command failed">>

\* middleware/error.ts: a thrown error becomes 500 {error: message}
errorHandler(message) == Json(500, [error |-> message])

NameRequiredResp == Json(400, [error |-> <<"name is required">>])
NotFoundResp == Json(404, [error |-> <<"Key not found or not yours">>])

\* Date -> ISO string, as JSON.stringify writes a TIMESTAMPTZ column
IsoString(t) == <<"iso", t>>

ListColumns == {"id", "user_id", "name", "prefix", "created_at"}

\* SELECT * instead of the five listed columns
SelectStar(row) == row

\* SELECT / RETURNING id, user_id, name, prefix, created_at
SelectColumns(row) == [c \in ListColumns |-> row[c]]

\* JSON.stringify of one selected row
Jsonify(row) == [row EXCEPT !.created_at = IsoString(row.created_at)]

JsonStringify(rows) == [i \in 1..Len(rows) |-> Jsonify(rows[i])]

\* JSON.parse of a stringified value
JsonParse(text) == text

----------------------------------------------------------------------------
(* The store *)

RowsOf(u) == {row \in api_keys : row.user_id = u}

IdsOf(u) == {row.id : row \in RowsOf(u)}

\* ORDER BY created_at DESC: every order the store may return
RECURSIVE Orderings(_)
Orderings(S) ==
    IF S = {} THEN {<<>>}
    ELSE UNION {{<<x>> \o t : t \in Orderings(S \ {x})} :
                x \in {y \in S : \A z \in S : y.created_at >= z.created_at}}

\* DELETE ... WHERE id = $1, without the owner
DeleteMatchesAnyOwner(row, id, userId) == row.id = id

\* DELETE FROM api_keys WHERE id = $1 AND user_id = $2
DeleteMatches(row, id, userId) == row.id = id /\ row.user_id = userId

\* one cache entry for every principal
cacheKeyShared(userId) == "u1"

cacheKey(userId) == userId

----------------------------------------------------------------------------
(* Request slots *)

IdleReq == [op |-> "none", user |-> "u1", pc |-> "idle", id |-> 0,
            raw |-> <<>>, rows |-> <<>>, record |-> <<>>]

DoneReq == [IdleReq EXCEPT !.op = "done", !.pc = "done"]

NoLast == [slot |-> 0, op |-> "none", user |-> "u1", id |-> 0, resp |-> <<>>,
           seen |-> {}, afterMut |-> FALSE]

\* slots are taken in order, each once
CanStart(r) ==
    /\ reqs[r].op = "none"
    /\ \A q \in Slots : q < r => reqs[q].op # "none"

\* the text values a response body carries
TextsOfRow(row) == {row[c] : c \in DOMAIN row \ {"id", "user_id", "created_at"}}

Texts(response) ==
    LET body == response.body
    IN  IF "error" \in DOMAIN body THEN {body.error}
        ELSE IF "keys" \in DOMAIN body
             THEN UNION {TextsOfRow(body.keys[i]) : i \in 1..Len(body.keys)}
        ELSE IF "key" \in DOMAIN body THEN {body.key} \cup TextsOfRow(body.record)
        ELSE {}

\* the handler of slot r returns response: the slot is finished
Respond(r, op, u, id, response, seenSet, after) ==
    /\ reqs' = [reqs EXCEPT ![r] = DoneReq]
    /\ last' = [slot |-> r, op |-> op, user |-> u, id |-> id, resp |-> <<response>>,
                seen |-> seenSet, afterMut |-> after]
    /\ returned' = [k \in RawKeys |->
                        IF k \in Texts(response) THEN returned[k] + 1 ELSE returned[k]]
    /\ seen' = [seen EXCEPT ![r] = {}]
    /\ afterMut' = [afterMut EXCEPT ![r] = FALSE]
    /\ answered' = IF op = "revoke"
                   THEN Append(answered, [slot |-> r, user |-> u, id |-> id, resp |-> response])
                   ELSE answered

RespondReq(r, response) ==
    Respond(r, reqs[r].op, reqs[r].user, reqs[r].id, response, seen[r], afterMut[r])

InFlightList(r, u) == reqs[r].op = "list" /\ reqs[r].user = u

InFlight(r, u) == reqs[r].op \in {"list", "issue", "revoke"} /\ reqs[r].user = u

\* a request of u arrives: it overlaps the requests of u still being handled
Arrive(u) ==
    overlap' = [overlap EXCEPT ![u] = @ \/ \E q \in Slots : InFlight(q, u)]

\* the store's rows of user u become ids: every List of u in flight has seen them
Observe(u, ids) ==
    seen' = [r \in Slots |-> IF InFlightList(r, u) THEN seen[r] \cup {ids} ELSE seen[r]]

KeysInit ==
    /\ api_keys = {}
    /\ nextId = 0
    /\ clock = 0
    /\ cache = [u \in Users |-> <<>>]
    /\ reqs = [r \in Slots |-> IdleReq]
    /\ last = NoLast
    /\ seen = [r \in Slots |-> {}]
    /\ afterMut = [r \in Slots |-> FALSE]
    /\ mutated = [u \in Users |-> FALSE]
    /\ returned = [k \in RawKeys |-> 0]
    /\ completed = {}
    /\ overlap = [u \in Users |-> FALSE]
    /\ answered = <<>>

----------------------------------------------------------------------------
(* GET /keys *)

\* redis.get, and the response when the entry is there
ListGet(r, u) ==
    /\ CanStart(r)
    /\ Arrive(u)
    /\ \E ok \in BOOLEAN :
         IF ~ok
         THEN Respond(r, "list", u, 0, errorHandler(RedisErrorMsg), {IdsOf(u)}, mutated[u])
         ELSE IF cache[cacheKey(u)] # <<>>
         THEN Respond(r, "list", u, 0,
                      Json(200, [keys |-> JsonParse(cache[cacheKey(u)][1]), cached |-> TRUE]),
                      {IdsOf(u)}, mutated[u])
         ELSE /\ reqs' = [reqs EXCEPT ![r] =
                    [IdleReq EXCEPT !.op = "list", !.user = u, !.pc = "query"]]
              /\ seen' = [seen EXCEPT ![r] = {IdsOf(u)}]
              /\ afterMut' = [afterMut EXCEPT ![r] = mutated[u]]
              /\ UNCHANGED <<last, returned, answered>>
    /\ UNCHANGED <<api_keys, nextId, clock, cache, mutated, completed, swapVars, first, gwVars, bootVars>>

\* db.query SELECT ... WHERE user_id = $1 ORDER BY created_at DESC
ListQuery(r) ==
    /\ reqs[r].op = "list" /\ reqs[r].pc = "query"
    /\ \E ok \in BOOLEAN :
         IF ok
         THEN /\ \E rows \in Orderings({SelectColumns(row) : row \in RowsOf(reqs[r].user)}) :
                    reqs' = [reqs EXCEPT ![r].pc = "setex", ![r].rows = rows]
              /\ UNCHANGED <<last, returned, seen, afterMut, answered>>
         ELSE RespondReq(r, errorHandler(DbErrorMsg))
    /\ UNCHANGED <<api_keys, nextId, clock, cache, mutated, completed, overlap, swapVars, first, gwVars, bootVars>>

\* redis.setex, then the response
ListSetex(r) ==
    /\ reqs[r].op = "list" /\ reqs[r].pc = "setex"
    /\ \E ok \in BOOLEAN :
         IF ok
         THEN /\ cache' = [cache EXCEPT ![cacheKey(reqs[r].user)] =
                                <<JsonStringify(reqs[r].rows)>>]
              /\ RespondReq(r, Json(200, [keys |-> JsonStringify(reqs[r].rows),
                                          cached |-> FALSE]))
         ELSE /\ RespondReq(r, errorHandler(RedisErrorMsg))
              /\ UNCHANGED cache
    /\ UNCHANGED <<api_keys, nextId, clock, mutated, completed, overlap, swapVars, first, gwVars, bootVars>>

----------------------------------------------------------------------------
(* POST /keys *)

\* validation, key generation and the INSERT
IssueInsert(r, u, name) ==
    /\ CanStart(r)
    /\ Arrive(u)
    /\ IF name = <<>> \/ Trim(name[1]) = <<>>
       THEN /\ Respond(r, "issue", u, 0, NameRequiredResp, {}, FALSE)
            /\ UNCHANGED <<api_keys, nextId, clock>>
       ELSE \E bytes \in RandomBytes, ok \in BOOLEAN :
              LET rawKey == generateApiKey(bytes)
                  t == clock + 1
                  row == [id |-> nextId + 1, user_id |-> u, name |-> Trim(name[1]),
                          prefix |-> keyPrefix(rawKey), key_hash |-> hashKey(rawKey),
                          created_at |-> t]
              IN  IF ok
                  THEN /\ api_keys' = api_keys \cup {row}
                       /\ nextId' = nextId + 1
                       /\ clock' = t
                       /\ reqs' = [reqs EXCEPT ![r] =
                              [IdleReq EXCEPT !.op = "issue", !.user = u, !.pc = "del",
                                              !.id = row.id, !.raw = rawKey,
                                              !.record = <<SelectColumns(row)>>]]
                       /\ Observe(u, IdsOf(u) \cup {row.id})
                       /\ UNCHANGED <<last, returned, afterMut, answered>>
                  ELSE /\ Respond(r, "issue", u, 0, errorHandler(DbErrorMsg), {}, FALSE)
                       /\ UNCHANGED <<api_keys, nextId, clock>>
    /\ UNCHANGED <<cache, mutated, completed, swapVars, first, gwVars, bootVars>>

\* redis.del, then the 201 response carrying the raw key
IssueDel(r) ==
    /\ reqs[r].op = "issue" /\ reqs[r].pc = "del"
    /\ \E ok \in BOOLEAN :
         IF ok
         THEN /\ cache' = [cache EXCEPT ![cacheKey(reqs[r].user)] = <<>>]
              /\ RespondReq(r, Json(201, [key |-> reqs[r].raw,
                                          record |-> Jsonify(reqs[r].record[1])]))
              /\ mutated' = [mutated EXCEPT ![reqs[r].user] = TRUE]
         ELSE /\ RespondReq(r, errorHandler(RedisErrorMsg))
              /\ UNCHANGED <<cache, mutated>>
    /\ completed' = completed \cup {reqs[r].id}
    /\ UNCHANGED <<api_keys, nextId, clock, overlap, swapVars, first, gwVars, bootVars>>

----------------------------------------------------------------------------
(* DELETE /keys/:id *)

\* a statement that returns the matching rows and leaves them in the table
DeleteLater(existing) == api_keys

\* the table once DELETE ... RETURNING id has removed the rows it returns
DeleteRows(existing) == api_keys \ existing

\* a reference that deletes the usage events of a deleted credential with it
OnDeleteCascade(usage, ids) == {row \in usage : row.api_key_id = <<>> \/ row.api_key_id[1] \notin ids}

\* api_key_id UUID REFERENCES api_keys(id) ON DELETE SET NULL
OnDeleteSetNull(usage, ids) ==
    {IF row.api_key_id # <<>> /\ row.api_key_id[1] \in ids
     THEN [row EXCEPT !.api_key_id = <<>>] ELSE row : row \in usage}

\* the DELETE ... RETURNING id, and the 404 when no row came back
RevokeDelete(r, u, id) ==
    /\ CanStart(r)
    /\ Arrive(u)
    /\ \E ok \in BOOLEAN :
         LET existing == {row \in api_keys : DeleteMatches(row, id, u)}
         IN  IF ~ok
             THEN /\ Respond(r, "revoke", u, id, errorHandler(DbErrorMsg), {}, FALSE)
                  /\ UNCHANGED <<api_keys, compute_usage>>
             ELSE IF existing = {}
             THEN /\ Respond(r, "revoke", u, id, NotFoundResp, {}, FALSE)
                  /\ UNCHANGED <<api_keys, compute_usage>>
             ELSE /\ api_keys' = DeleteRows(existing)
                  /\ compute_usage' = OnDeleteSetNull(compute_usage, {row.id : row \in existing})
                  /\ reqs' = [reqs EXCEPT ![r] =
                         [IdleReq EXCEPT !.op = "revoke", !.user = u, !.pc = "del", !.id = id]]
                  /\ Observe(u, {row.id : row \in RowsOf(u) \ existing})
                  /\ UNCHANGED <<last, returned, afterMut, answered>>
    /\ UNCHANGED <<nextId, clock, cache, mutated, completed, swapVars, first, gw, denials,
                   bootVars>>

\* redis.del, then the success response
RevokeDel(r) ==
    /\ reqs[r].op = "revoke" /\ reqs[r].pc = "del"
    /\ \E ok \in BOOLEAN :
         IF ok
         THEN /\ cache' = [cache EXCEPT ![cacheKey(reqs[r].user)] = <<>>]
              /\ RespondReq(r, Json(200, [success |-> TRUE, id |-> reqs[r].id]))
              /\ mutated' = [mutated EXCEPT ![reqs[r].user] = TRUE]
         ELSE /\ RespondReq(r, errorHandler(RedisErrorMsg))
              /\ UNCHANGED <<cache, mutated>>
    /\ UNCHANGED <<api_keys, nextId, clock, completed, overlap, swapVars, first, gwVars, bootVars>>

\* the entry's TTL (CACHE_TTL seconds) runs out
CacheExpire(u) ==
    /\ cache[cacheKey(u)] # <<>>
    /\ cache' = [cache EXCEPT ![cacheKey(u)] = <<>>]
    /\ UNCHANGED <<api_keys, nextId, clock, reqs, last, seen, afterMut, mutated,
                   returned, completed, overlap, answered, swapVars, first, gwVars, bootVars>>

----------------------------------------------------------------------------
(* routes/atlas-os/0x/_proxy.ts *)

ZERO_EX_BASE == <<"https://api.0x.org">>

SWAP_PARAMS == <<"chainId", "buyToken", "sellToken", "sellAmount", "taker", "txOrigin",
                 "recipient", "swapFeeRecipient", "swapFeeBps", "swapFeeToken",
                 "tradeSurplusRecipient", "tradeSurplusMaxBps", "gasPrice",
                 "slippageBps", "excludedSources", "sellEntireBalance">>

SwapParamSet == {SWAP_PARAMS[i] : i \in 1..Len(SWAP_PARAMS)}

Comma == <<",">>

\* JavaScript truthiness of an optional string: defined and not ""
Truthy(opt) == opt # <<>> /\ opt[1] # <<>>

\* a ?? b on optional strings
Coalesce(opt, default) == IF opt # <<>> THEN opt[1] ELSE default

\* URLSearchParams over a list of <<name, value>> pairs
SearchHas(sp, k) == \E i \in 1..Len(sp) : sp[i][1] = k

SearchFirst(sp, k) == CHOOSE i \in 1..Len(sp) : sp[i][1] = k /\ \A j \in 1..(i - 1) : sp[j][1] # k

SearchGet(sp, k) == IF SearchHas(sp, k) THEN <<sp[SearchFirst(sp, k)][2]>> ELSE <<>>

SearchSet(sp, k, v) ==
    IF ~SearchHas(sp, k) THEN Append(sp, <<k, v>>)
    ELSE LET i == SearchFirst(sp, k)
             rest == SubSeq(sp, i + 1, Len(sp))
             keep == {j \in 1..Len(rest) : rest[j][1] # k}
             Pick[n \in 0..Len(rest)] ==
                 IF n = 0 THEN <<>>
                 ELSE IF n \in keep THEN Append(Pick[n - 1], rest[n]) ELSE Pick[n - 1]
         IN  SubSeq(sp, 1, i - 1) \o <<<<k, v>>>> \o Pick[Len(rest)]

\* for (const [key, val] of Object.entries(callerParams)) if (val) ...
ForwardTruthyParams(callerParams) ==
    LET Fwd[n \in 0..Len(callerParams)] ==
            IF n = 0 THEN <<>>
            ELSE IF callerParams[n][2] # <<>>
                 THEN SearchSet(Fwd[n - 1], callerParams[n][1], callerParams[n][2])
                 ELSE Fwd[n - 1]
    IN  Fwd[Len(callerParams)]

\* for (const [key, val] of Object.entries(callerParams)) url.searchParams.set(key, val)
ForwardParams(callerParams) ==
    LET Fwd[n \in 0..Len(callerParams)] ==
            IF n = 0 THEN <<>>
            ELSE SearchSet(Fwd[n - 1], callerParams[n][1], callerParams[n][2])
    IN  Fwd[Len(callerParams)]

\* injection that leaves a caller's own fee alone
InjectFeeUnlessPresent(sp, feeRecipient, feeBps) ==
    IF Truthy(feeRecipient) /\ ~Truthy(SearchGet(sp, "swapFeeRecipient"))
    THEN SearchSet(SearchSet(sp, "swapFeeRecipient", feeRecipient[1]), "swapFeeBps", feeBps)
    ELSE sp

\* injection that puts the platform's entry first
InjectFeeFirst(sp, feeRecipient, feeBps) ==
    IF Truthy(feeRecipient)
    THEN LET existing == SearchGet(sp, "swapFeeRecipient")
             existingBps == SearchGet(sp, "swapFeeBps")
         IN  IF Truthy(existing)
             THEN SearchSet(
                    SearchSet(sp, "swapFeeRecipient", feeRecipient[1] \o Comma \o existing[1]),
                    "swapFeeBps", feeBps \o Comma \o Coalesce(existingBps, feeBps))
             ELSE SearchSet(SearchSet(sp, "swapFeeRecipient", feeRecipient[1]),
                            "swapFeeBps", feeBps)
    ELSE sp

\* injection that keeps a caller's swapFeeBps when the caller named no recipient
InjectFeeKeepBps(sp, feeRecipient, feeBps) ==
    IF Truthy(feeRecipient)
    THEN LET existing == SearchGet(sp, "swapFeeRecipient")
             existingBps == SearchGet(sp, "swapFeeBps")
         IN  IF Truthy(existing)
             THEN SearchSet(
                    SearchSet(sp, "swapFeeRecipient", existing[1] \o Comma \o feeRecipient[1]),
                    "swapFeeBps", Coalesce(existingBps, feeBps) \o Comma \o feeBps)
             ELSE SearchSet(SearchSet(sp, "swapFeeRecipient", feeRecipient[1]),
                            "swapFeeBps", Coalesce(existingBps, feeBps))
    ELSE sp

\* the platform fee injection of buildUpstreamUrl
InjectFee(sp, feeRecipient, feeBps) ==
    IF Truthy(feeRecipient)
    THEN LET existing == SearchGet(sp, "swapFeeRecipient")
             existingBps == SearchGet(sp, "swapFeeBps")
         IN  IF Truthy(existing)
             THEN SearchSet(
                    SearchSet(sp, "swapFeeRecipient", existing[1] \o Comma \o feeRecipient[1]),
                    "swapFeeBps", Coalesce(existingBps, feeBps) \o Comma \o feeBps)
             ELSE SearchSet(SearchSet(sp, "swapFeeRecipient", feeRecipient[1]),
                            "swapFeeBps", feeBps)
    ELSE sp

\* a surplus injection that adds the platform address to the caller's, as the fee does
InjectSurplusAppend(sp, surplusRecipient) ==
    IF ~Truthy(surplusRecipient) THEN sp
    ELSE IF Truthy(SearchGet(sp, "tradeSurplusRecipient"))
    THEN SearchSet(sp, "tradeSurplusRecipient",
                   SearchGet(sp, "tradeSurplusRecipient")[1] \o Comma \o surplusRecipient[1])
    ELSE SearchSet(sp, "tradeSurplusRecipient", surplusRecipient[1])

\* the trade surplus injection of buildUpstreamUrl
InjectSurplus(sp, surplusRecipient) ==
    IF Truthy(surplusRecipient) /\ ~SearchHas(sp, "tradeSurplusRecipient")
    THEN SearchSet(sp, "tradeSurplusRecipient", surplusRecipient[1])
    ELSE sp

DefaultFeeBps == <<"25">>

\* process.env["ZERO_EX_FEE_BPS"] ?? "25"
FeeBps(e) == Coalesce(e.ZERO_EX_FEE_BPS, DefaultFeeBps)

\* a builder that keeps one URL object for all requests
buildUpstreamUrlShared(path, callerParams, e) ==
    LET kept == IF first # <<>> /\ first[1].past THEN first[1].url.searchParams ELSE <<>>
        Fwd[n \in 0..Len(callerParams)] ==
            IF n = 0 THEN kept
            ELSE SearchSet(Fwd[n - 1], callerParams[n][1], callerParams[n][2])
    IN  [base |-> ZERO_EX_BASE, path |-> path,
         searchParams |->
            InjectSurplus(
                InjectFee(Fwd[Len(callerParams)], e.ZERO_EX_FEE_RECIPIENT, FeeBps(e)),
                e.ZERO_EX_SURPLUS_RECIPIENT)]

buildUpstreamUrl(path, callerParams, e) ==
    [base |-> ZERO_EX_BASE, path |-> path,
     searchParams |->
        InjectSurplus(
            InjectFee(ForwardParams(callerParams), e.ZERO_EX_FEE_RECIPIENT, FeeBps(e)),
            e.ZERO_EX_SURPLUS_RECIPIENT)]

\* the value of a parameter object's property: undefined or the string
ParamOf(params, p) == SearchGet(params, p)

\* a validation that reports the last missing name
missingParamLast(params, required) ==
    LET bad == {i \in 1..Len(required) : ~Truthy(ParamOf(params, required[i]))}
    IN  IF bad = {} THEN <<>>
        ELSE <<required[CHOOSE i \in bad : \A j \in bad : i >= j]>>

\* first required name whose value is missing or "", or null (<<>>)
missingParam(params, required) ==
    LET bad == {i \in 1..Len(required) : ~Truthy(ParamOf(params, required[i]))}
    IN  IF bad = {} THEN <<>>
        ELSE <<required[CHOOSE i \in bad : \A j \in bad : i <= j]>>

----------------------------------------------------------------------------
(* routes/atlas-os/0x/swap/allowance-holder/price.ts, quote.ts *)

PriceRequired == <<"chainId", "buyToken", "sellToken", "sellAmount">>
QuoteRequired == <<"chainId", "buyToken", "sellToken", "sellAmount", "taker">>

PricePath == <<"/swap/allowance-holder/price">>
QuotePath == <<"/swap/allowance-holder/quote">>

\* ctx.req.query(p): undefined or the value
QueryOf(q, p) == IF p \in DOMAIN q THEN <<q[p]>> ELSE <<>>

\* Object.fromEntries(SWAP_PARAMS.map(p => [p, query(p)]).filter(v !== undefined))
CallerParams(q) ==
    LET Take[n \in 0..Len(SWAP_PARAMS)] ==
            IF n = 0 THEN <<>>
            ELSE IF QueryOf(q, SWAP_PARAMS[n]) # <<>>
                 THEN Append(Take[n - 1], <<SWAP_PARAMS[n], q[SWAP_PARAMS[n]]>>)
                 ELSE Take[n - 1]
    IN  Take[Len(SWAP_PARAMS)]

RequiredResp(missing) == Json(400, [error |-> <<"'", missing, "' is required">>])

ApiKeyMissingMsg == <<"ZERO_EX_API_KEY not configured">>
FetchFailedMsg == <<"fetch failed">>

UpstreamError(message) == Json(503, [error |-> message])

\* status codes the 0x API answers with
UpstreamStatuses == {200, 400, 500}

UpstreamBody(status) == <<"0x-json", status>>

IdleSwap == [pc |-> "idle", route |-> "none", query |-> <<>>, url |-> <<>>,
             resp |-> <<>>, calls |-> 0]

\* the remembered build belongs to a request that has been answered
Past(f) == IF f = <<>> THEN f ELSE <<[f[1] EXCEPT !.past = TRUE]>>

\* the handler up to the fetch of proxySwap: the request's next position
SwapHandle(route, required, path, q, e) ==
    LET params == CallerParams(q)
        missing == missingParam(params, required)
        url == buildUpstreamUrl(path, params, e)
    IN  IF missing # <<>>
        THEN [IdleSwap EXCEPT !.pc = "done", !.route = route, !.query = <<q>>,
                              !.resp = <<RequiredResp(missing[1])>>]
        ELSE IF ~Truthy(e.ZERO_EX_API_KEY)
        THEN [IdleSwap EXCEPT !.pc = "done", !.route = route, !.query = <<q>>,
                              !.resp = <<UpstreamError(ApiKeyMissingMsg)>>]
        ELSE [IdleSwap EXCEPT !.pc = "fetch", !.route = route, !.query = <<q>>,
                              !.url = <<url>>, !.calls = 1]

PriceGet(q) ==
    /\ swap.pc = "idle"
    /\ swap' = SwapHandle("price", PriceRequired, PricePath, q, env)
    /\ UNCHANGED <<env, keysVars, first, gwVars, bootVars>>

QuoteGet(q) ==
    /\ swap.pc = "idle"
    /\ swap' = SwapHandle("quote", QuoteRequired, QuotePath, q, env)
    /\ UNCHANGED <<env, keysVars, first, gwVars, bootVars>>

\* the 0x API answers: its status and JSON body are relayed
UpstreamReply(status) ==
    /\ swap.pc = "fetch"
    /\ swap' = [IdleSwap EXCEPT !.pc = "done", !.route = swap.route, !.calls = swap.calls,
                                !.resp = <<Json(status, UpstreamBody(status))>>]
    /\ first' = Past(first)
    /\ UNCHANGED <<env, keysVars, gwVars, bootVars>>

\* fetch rejects (network failure, timeout): the catch answers 503
UpstreamFails ==
    /\ swap.pc = "fetch"
    /\ swap' = [IdleSwap EXCEPT !.pc = "done", !.route = swap.route, !.calls = swap.calls,
                                !.resp = <<UpstreamError(FetchFailedMsg)>>]
    /\ first' = Past(first)
    /\ UNCHANGED <<env, keysVars, gwVars, bootVars>>

\* history: the URL being fetched is kept as the first one built
RememberBuild ==
    /\ swap.pc = "fetch"
    /\ first = <<>>
    /\ first' = <<[route |-> swap.route, query |-> swap.query[1], url |-> swap.url[1],
                   past |-> FALSE]>>
    /\ UNCHANGED <<swapVars, keysVars, gwVars, bootVars>>

\* the response is sent; the next request can be served
SwapClose ==
    /\ swap.pc = "done"
    /\ swap' = IdleSwap
    /\ UNCHANGED <<env, keysVars, first, gwVars, bootVars>>

----------------------------------------------------------------------------
(* Swap inputs *)

EmptyFn == [x \in {} |-> x]

Field(k, opt) == IF opt = <<>> THEN EmptyFn ELSE k :> opt[1]

CallerAddrs == <<"0xC1", "0xC2", "0xC3", "0xC4">>
CallerBps == <<"10", "20", "15", "5">>

\* a1,a2,...,an
JoinComma(atoms, n) ==
    LET J[i \in 1..n] == IF i = 1 THEN <<atoms[1]>> ELSE J[i - 1] \o Comma \o <<atoms[i]>>
    IN  J[n]

\* undefined, "", or a list of 1..MaxCallerFees entries
FeeValues(atoms) ==
    {<<>>, <<<<>>>>} \cup {<<JoinComma(atoms, n)>> : n \in 1..MaxCallerFees}

RequiredKeys == {"chainId", "buyToken", "sellToken", "sellAmount", "taker"}

\* every subset of the required parameters, chainId also as ""
RequiredInputs ==
    {[k \in S |-> IF k = "chainId" /\ blank THEN <<>> ELSE <<"1">>] :
        S \in SUBSET RequiredKeys, blank \in BOOLEAN}

\* the required parameters of a price request, with or without a taker
CompleteInputs ==
    {[k \in S |-> <<"1">>] : S \in {RequiredKeys, RequiredKeys \ {"taker"}}}

\* optional parameters the proxy forwards untouched, and one it does not know
ExtraKeys == {"gasPrice", "slippageBps", "foo"}

ExtraInputs ==
    {[k \in S |-> <<"x">>] : S \in {T \in SUBSET ExtraKeys : Cardinality(T) <= MaxExtras}}

\* complete requests with every choice of optional parameters, and requests
\* with required parameters missing
Queries ==
    {req @@ Field("swapFeeRecipient", r) @@ Field("swapFeeBps", b)
         @@ Field("tradeSurplusRecipient", s) @@ extra :
        req \in CompleteInputs, r \in FeeValues(CallerAddrs), b \in FeeValues(CallerBps),
        s \in {<<>>, <<<<>>>>, <<<<"0xS1">>>>}, extra \in ExtraInputs}
    \cup RequiredInputs

Envs ==
    [ZERO_EX_FEE_RECIPIENT : {<<>>, <<<<>>>>, <<<<"0xP">>>>},
     ZERO_EX_FEE_BPS : {<<>>, <<<<"30">>>>},
     ZERO_EX_SURPLUS_RECIPIENT : {<<>>, <<<<>>>>, <<<<"0xS">>>>},
     ZERO_EX_API_KEY : {<<>>, <<<<"zx-key">>>>},
     CLERK_SECRET_KEY : {<<<<"sk">>>>}, DATABASE_URL : {<<<<"postgres://db">>>>},
     REDIS_URL : {<<<<"redis://cache">>>>}, ALCHEMY_API_KEY : {<<<<"alchemy-key">>>>}]

DefaultEnv ==
    [ZERO_EX_FEE_RECIPIENT |-> <<<<"0xP">>>>, ZERO_EX_FEE_BPS |-> <<>>,
     ZERO_EX_SURPLUS_RECIPIENT |-> <<>>, ZERO_EX_API_KEY |-> <<<<"zx-key">>>>,
     CLERK_SECRET_KEY |-> <<<<"sk">>>>, DATABASE_URL |-> <<<<"postgres://db">>>>,
     REDIS_URL |-> <<<<"redis://cache">>>>, ALCHEMY_API_KEY |-> <<<<"alchemy-key">>>>]

\* the requests whose builds are compared: complete, with every fee input
RepeatQueries ==
    {q \in Queries : DOMAIN q \subseteq RequiredKeys \cup {"swapFeeRecipient", "swapFeeBps"}}

----------------------------------------------------------------------------
(* middleware/apikey.ts *)

UpperChars == <<"A", "B", "C", "D", "E", "F", "G", "H", "I", "J", "K", "L", "M",
                "N", "O", "P", "Q", "R", "S", "T", "U", "V", "W", "X", "Y", "Z">>
LowerChars == <<"a", "b", "c", "d", "e", "f", "g", "h", "i", "j", "k", "l", "m",
                "n", "o", "p", "q", "r", "s", "t", "u", "v", "w", "x", "y", "z">>

LowerChar(c) ==
    IF \E i \in 1..Len(UpperChars) : UpperChars[i] = c
    THEN LowerChars[CHOOSE i \in 1..Len(UpperChars) : UpperChars[i] = c]
    ELSE c

UpperChar(c) ==
    IF \E i \in 1..Len(LowerChars) : LowerChars[i] = c
    THEN UpperChars[CHOOSE i \in 1..Len(LowerChars) : LowerChars[i] = c]
    ELSE c

\* a text that is not lower-cased at all
toLowerCaseNot(text) == text

\* String.prototype.toLowerCase
toLowerCase(text) == [i \in 1..Len(text) |-> LowerChar(text[i])]

toUpperCase(text) == [i \in 1..Len(text) |-> UpperChar(text[i])]

AtlPrefix == <<"a", "t", "l", "_">>
Bearer == <<"B", "e", "a", "r", "e", "r">>

\* a check that lets every header through
startsWithAnything(text, prefix) == TRUE

\* String.prototype.startsWith
startsWith(text, prefix) ==
    Len(text) >= Len(prefix) /\ SubSeq(text, 1, Len(prefix)) = prefix

\* replace(/^Bearer\s+/i, "")
StripBearer(text) ==
    IF /\ Len(text) > Len(Bearer)
       /\ toLowerCase(SubSeq(text, 1, Len(Bearer))) = toLowerCase(Bearer)
       /\ IsSpace(text[Len(Bearer) + 1])
    THEN TrimStart(SubSeq(text, Len(Bearer) + 1, Len(text)))
    ELSE text

\* header("X-API-Key") ?? header("Authorization")?.replace(...)
ApiKeyHeader(xApiKey, authorization) ==
    IF xApiKey # <<>> THEN xApiKey
    ELSE IF authorization # <<>> THEN <<StripBearer(authorization[1])>>
    ELSE <<>>

MissingKeyResp == Json(401, [error |-> <<"Missing or invalid API key">>])
InvalidKeyResp == Json(401, [error |-> <<"Invalid API key">>])

\* the store after Issue requests for the first n of (u1, key 0), (u2, key 1)
IssuedRow(n) ==
    LET rawKey == generateApiKey([i \in 1..KeyBytes |-> n - 1])
    IN  [id |-> n, user_id |-> IF n = 1 THEN "u1" ELSE "u2", name |-> Laptop,
         prefix |-> keyPrefix(rawKey), key_hash |-> hashKey(rawKey), created_at |-> n]

IssuedStore(n) == {IssuedRow(i) : i \in 1..n}

\* a verifier that remembers every credential ever issued
KeyRowsRemembered(keyHash) == {IssuedRow(n) : n \in {m \in 1..nextId : IssuedRow(m).key_hash = keyHash}}

\* SELECT id, user_id FROM api_keys WHERE key_hash = $1
KeyRows(keyHash) == {row \in api_keys : row.key_hash = keyHash}

----------------------------------------------------------------------------
(* index.ts: the /atlas-os routes *)

Endpoints == {"rpc.list", "rpc.post", "dex.get", "usage.post", "usage.get",
              "0x.price", "0x.quote", "0x.chains"}

\* the mount a route belongs to
Mount(endpoint) ==
    CASE endpoint \in {"rpc.list", "rpc.post"} -> "rpc"
      [] endpoint = "dex.get" -> "dex"
      [] endpoint \in {"usage.post", "usage.get"} -> "compute"
      [] OTHER -> "0x"

\* wiring that leaves the RPC routes without the middleware
UsesApiKeyAuthButRpc(mount) == mount \in {"dex", "compute", "0x"}

\* atlasOs.use("/<mount>/*", apiKeyAuth), registered before the mount's routes
UsesApiKeyAuth(mount) == mount \in {"rpc", "dex", "compute", "0x"}

IdleGw == [pc |-> "idle", endpoint |-> "none", header |-> <<>>, lookups |-> 0,
           verified |-> FALSE, userId |-> <<>>, apiKeyId |-> <<>>,
           alias |-> <<>>, chain |-> <<>>, body |-> <<>>, sent |-> <<>>,
           got |-> <<>>, calls |-> 0, resp |-> <<>>]

GwInit ==
    /\ gw = IdleGw
    /\ compute_usage = {}
    /\ denials = {}

\* the request is answered
GwRespond(response) == [gw EXCEPT !.pc = "done", !.resp = <<response>>]

\* a request arrives: apiKeyAuth up to its store lookup
GwReceive(endpoint, xApiKey, authorization) ==
    /\ gw.pc = "idle"
    /\ LET header == ApiKeyHeader(xApiKey, authorization)
           req == [IdleGw EXCEPT !.endpoint = endpoint, !.header = header]
       IN  IF ~UsesApiKeyAuth(Mount(endpoint))
           THEN /\ gw' = [req EXCEPT !.pc = "route"]
                /\ UNCHANGED denials
           ELSE IF header = <<>> \/ ~startsWith(header[1], AtlPrefix)
           THEN /\ gw' = [req EXCEPT !.pc = "done", !.resp = <<MissingKeyResp>>]
                /\ denials' = denials \cup {MissingKeyResp}
           ELSE /\ gw' = [req EXCEPT !.pc = "lookup", !.lookups = 1]
                /\ UNCHANGED denials
    /\ UNCHANGED <<compute_usage, keysVars, swapVars, first, bootVars>>

\* the store answers apiKeyAuth's lookup: 401, or the principal is attached
GwLookup ==
    /\ gw.pc = "lookup"
    /\ \E ok \in BOOLEAN :
         LET rows == KeyRows(hashKey(gw.header[1]))
         IN  IF ~ok
             THEN /\ gw' = GwRespond(errorHandler(DbErrorMsg))
                  /\ UNCHANGED denials
             ELSE IF rows = {}
             THEN /\ gw' = GwRespond(InvalidKeyResp)
                  /\ denials' = denials \cup {InvalidKeyResp}
             ELSE /\ \E row \in rows :
                       gw' = [gw EXCEPT !.pc = "route", !.verified = TRUE,
                                        !.userId = <<row.user_id>>, !.apiKeyId = <<row.id>>]
                  /\ UNCHANGED denials
    /\ UNCHANGED <<compute_usage, keysVars, swapVars, first, bootVars>>

\* routes/atlas-os/rpc.ts

\* alias, Alchemy network slug, URL template (undefined is "v2")
CHAINS == <<
    <<<<"e", "t", "h">>, "eth-mainnet", <<>>>>,
    <<<<"e", "t", "h", "-", "m", "a", "i", "n", "n", "e", "t">>, "eth-mainnet", <<>>>>,
    <<<<"e", "t", "h", "e", "r", "e", "u", "m">>, "eth-mainnet", <<>>>>,
    <<<<"e", "t", "h", "-", "s", "e", "p", "o", "l", "i", "a">>, "eth-sepolia", <<>>>>,
    <<<<"e", "t", "h", "-", "h", "o", "l", "e", "s", "k", "y">>, "eth-holesky", <<>>>>,
    <<<<"e", "t", "h", "-", "h", "o", "o", "d", "i">>, "eth-hoodi", <<>>>>,
    <<<<"a", "r", "b">>, "arb-mainnet", <<>>>>,
    <<<<"a", "r", "b", "i", "t", "r", "u", "m">>, "arb-mainnet", <<>>>>,
    <<<<"a", "r", "b", "-", "m", "a", "i", "n", "n", "e", "t">>, "arb-mainnet", <<>>>>,
    <<<<"a", "r", "b", "-", "s", "e", "p", "o", "l", "i", "a">>, "arb-sepolia", <<>>>>,
    <<<<"a", "r", "b", "n", "o", "v", "a">>, "arbnova-mainnet", <<>>>>,
    <<<<"a", "r", "b", "n", "o", "v", "a", "-", "m", "a", "i", "n", "n", "e", "t">>, "arbnova-mainnet", <<>>>>,
    <<<<"a", "r", "b", "i", "t", "r", "u", "m", "-", "n", "o", "v", "a">>, "arbnova-mainnet", <<>>>>,
    <<<<"b", "a", "s", "e">>, "base-mainnet", <<>>>>,
    <<<<"b", "a", "s", "e", "-", "m", "a", "i", "n", "n", "e", "t">>, "base-mainnet", <<>>>>,
    <<<<"b", "a", "s", "e", "-", "s", "e", "p", "o", "l", "i", "a">>, "base-sepolia", <<>>>>,
    <<<<"o", "p">>, "opt-mainnet", <<>>>>,
    <<<<"o", "p", "t", "i", "m", "i", "s", "m">>, "opt-mainnet", <<>>>>,
    <<<<"o", "p", "t", "-", "m", "a", "i", "n", "n", "e", "t">>, "opt-mainnet", <<>>>>,
    <<<<"o", "p", "t", "-", "s", "e", "p", "o", "l", "i", "a">>, "opt-sepolia", <<>>>>,
    <<<<"p", "o", "l", "y", "g", "o", "n">>, "polygon-mainnet", <<>>>>,
    <<<<"m", "a", "t", "i", "c">>, "polygon-mainnet", <<>>>>,
    <<<<"p", "o", "l", "y", "g", "o", "n", "-", "m", "a", "i", "n", "n", "e", "t">>, "polygon-mainnet", <<>>>>,
    <<<<"p", "o", "l", "y", "g", "o", "n", "-", "a", "m", "o", "y">>, "polygon-amoy", <<>>>>,
    <<<<"p", "o", "l", "y", "g", "o", "n", "z", "k", "e", "v", "m">>, "polygonzkevm-mainnet", <<>>>>,
    <<<<"p", "o", "l", "y", "g", "o", "n", "-", "z", "k", "e", "v", "m">>, "polygonzkevm-mainnet", <<>>>>,
    <<<<"p", "o", "l", "y", "g", "o", "n", "z", "k", "e", "v", "m", "-", "m", "a", "i", "n", "n", "e", "t">>, "polygonzkevm-mainnet", <<>>>>,
    <<<<"p", "o", "l", "y", "g", "o", "n", "z", "k", "e", "v", "m", "-", "c", "a", "r", "d", "o", "n", "a">>, "polygonzkevm-cardona", <<>>>>,
    <<<<"a", "v", "a", "x">>, "avax-mainnet", <<>>>>,
    <<<<"a", "v", "a", "l", "a", "n", "c", "h", "e">>, "avax-mainnet", <<>>>>,
    <<<<"a", "v", "a", "x", "-", "m", "a", "i", "n", "n", "e", "t">>, "avax-mainnet", <<>>>>,
    <<<<"a", "v", "a", "x", "-", "f", "u", "j", "i">>, "avax-fuji", <<>>>>,
    <<<<"b", "s", "c">>, "bnb-mainnet", <<>>>>,
    <<<<"b", "n", "b">>, "bnb-mainnet", <<>>>>,
    <<<<"b", "n", "b", "-", "m", "a", "i", "n", "n", "e", "t">>, "bnb-mainnet", <<>>>>,
    <<<<"b", "n", "b", "-", "t", "e", "s", "t", "n", "e", "t">>, "bnb-testnet", <<>>>>,
    <<<<"o", "p", "b", "n", "b">>, "opbnb-mainnet", <<>>>>,
    <<<<"o", "p", "b", "n", "b", "-", "m", "a", "i", "n", "n", "e", "t">>, "opbnb-mainnet", <<>>>>,
    <<<<"o", "p", "b", "n", "b", "-", "t", "e", "s", "t", "n", "e", "t">>, "opbnb-testnet", <<>>>>,
    <<<<"s", "o", "l", "a", "n", "a">>, "solana-mainnet", <<>>>>,
    <<<<"s", "o", "l", "a", "n", "a", "-", "m", "a", "i", "n", "n", "e", "t">>, "solana-mainnet", <<>>>>,
    <<<<"s", "o", "l", "a", "n", "a", "-", "d", "e", "v", "n", "e", "t">>, "solana-devnet", <<>>>>,
    <<<<"s", "t", "a", "r", "k", "n", "e", "t">>, "starknet-mainnet", <<"starknet">>>>,
    <<<<"s", "t", "a", "r", "k", "n", "e", "t", "-", "m", "a", "i", "n", "n", "e", "t">>, "starknet-mainnet", <<"starknet">>>>,
    <<<<"s", "t", "a", "r", "k", "n", "e", "t", "-", "s", "e", "p", "o", "l", "i", "a">>, "starknet-sepolia", <<"starknet">>>>,
    <<<<"z", "k", "s", "y", "n", "c">>, "zksync-mainnet", <<>>>>,
    <<<<"z", "k", "s", "y", "n", "c", "-", "m", "a", "i", "n", "n", "e", "t">>, "zksync-mainnet", <<>>>>,
    <<<<"z", "k", "s", "y", "n", "c", "-", "s", "e", "p", "o", "l", "i", "a">>, "zksync-sepolia", <<>>>>,
    <<<<"l", "i", "n", "e", "a">>, "linea-mainnet", <<>>>>,
    <<<<"l", "i", "n", "e", "a", "-", "m", "a", "i", "n", "n", "e", "t">>, "linea-mainnet", <<>>>>,
    <<<<"l", "i", "n", "e", "a", "-", "s", "e", "p", "o", "l", "i", "a">>, "linea-sepolia", <<>>>>,
    <<<<"b", "l", "a", "s", "t">>, "blast-mainnet", <<>>>>,
    <<<<"b", "l", "a", "s", "t", "-", "m", "a", "i", "n", "n", "e", "t">>, "blast-mainnet", <<>>>>,
    <<<<"b", "l", "a", "s", "t", "-", "s", "e", "p", "o", "l", "i", "a">>, "blast-sepolia", <<>>>>,
    <<<<"m", "a", "n", "t", "l", "e">>, "mantle-mainnet", <<>>>>,
    <<<<"m", "a", "n", "t", "l", "e", "-", "m", "a", "i", "n", "n", "e", "t">>, "mantle-mainnet", <<>>>>,
    <<<<"m", "a", "n", "t", "l", "e", "-", "s", "e", "p", "o", "l", "i", "a">>, "mantle-sepolia", <<>>>>,
    <<<<"s", "c", "r", "o", "l", "l">>, "scroll-mainnet", <<>>>>,
    <<<<"s", "c", "r", "o", "l", "l", "-", "m", "a", "i", "n", "n", "e", "t">>, "scroll-mainnet", <<>>>>,
    <<<<"s", "c", "r", "o", "l", "l", "-", "s", "e", "p", "o", "l", "i", "a">>, "scroll-sepolia", <<>>>>,
    <<<<"b", "e", "r", "a">>, "berachain-mainnet", <<>>>>,
    <<<<"b", "e", "r", "a", "c", "h", "a", "i", "n">>, "berachain-mainnet", <<>>>>,
    <<<<"b", "e", "r", "a", "c", "h", "a", "i", "n", "-", "m", "a", "i", "n", "n", "e", "t">>, "berachain-mainnet", <<>>>>,
    <<<<"b", "e", "r", "a", "c", "h", "a", "i", "n", "-", "b", "e", "p", "o", "l", "i", "a">>, "berachain-bepolia", <<>>>>,
    <<<<"c", "e", "l", "o">>, "celo-mainnet", <<>>>>,
    <<<<"c", "e", "l", "o", "-", "m", "a", "i", "n", "n", "e", "t">>, "celo-mainnet", <<>>>>,
    <<<<"c", "e", "l", "o", "-", "s", "e", "p", "o", "l", "i", "a">>, "celo-sepolia", <<>>>>,
    <<<<"u", "n", "i", "c", "h", "a", "i", "n">>, "unichain-mainnet", <<>>>>,
    <<<<"u", "n", "i", "c", "h", "a", "i", "n", "-", "m", "a", "i", "n", "n", "e", "t">>, "unichain-mainnet", <<>>>>,
    <<<<"u", "n", "i", "c", "h", "a", "i", "n", "-", "s", "e", "p", "o", "l", "i", "a">>, "unichain-sepolia", <<>>>>,
    <<<<"w", "o", "r", "l", "d", "-", "c", "h", "a", "i", "n">>, "worldchain-mainnet", <<>>>>,
    <<<<"w", "o", "r", "l", "d", "c", "h", "a", "i", "n">>, "worldchain-mainnet", <<>>>>,
    <<<<"w", "o", "r", "l", "d", "c", "h", "a", "i", "n", "-", "m", "a", "i", "n", "n", "e", "t">>, "worldchain-mainnet", <<>>>>,
    <<<<"w", "o", "r", "l", "d", "c", "h", "a", "i", "n", "-", "s", "e", "p", "o", "l", "i", "a">>, "worldchain-sepolia", <<>>>>,
    <<<<"h", "y", "p", "e", "r", "e", "v", "m">>, "hyperliquid-mainnet", <<>>>>,
    <<<<"h", "y", "p", "e", "r", "l", "i", "q", "u", "i", "d">>, "hyperliquid-mainnet", <<>>>>,
    <<<<"h", "y", "p", "e", "r", "l", "i", "q", "u", "i", "d", "-", "m", "a", "i", "n", "n", "e", "t">>, "hyperliquid-mainnet", <<>>>>,
    <<<<"h", "y", "p", "e", "r", "l", "i", "q", "u", "i", "d", "-", "t", "e", "s", "t", "n", "e", "t">>, "hyperliquid-testnet", <<>>>>,
    <<<<"s", "o", "n", "i", "c">>, "sonic-mainnet", <<>>>>,
    <<<<"s", "o", "n", "i", "c", "-", "m", "a", "i", "n", "n", "e", "t">>, "sonic-mainnet", <<>>>>,
    <<<<"s", "o", "n", "i", "c", "-", "t", "e", "s", "t", "n", "e", "t">>, "sonic-testnet", <<>>>>,
    <<<<"s", "o", "n", "i", "c", "-", "b", "l", "a", "z", "e">>, "sonic-blaze", <<>>>>,
    <<<<"s", "e", "i">>, "sei-mainnet", <<>>>>,
    <<<<"s", "e", "i", "-", "m", "a", "i", "n", "n", "e", "t">>, "sei-mainnet", <<>>>>,
    <<<<"s", "e", "i", "-", "t", "e", "s", "t", "n", "e", "t">>, "sei-testnet", <<>>>>,
    <<<<"m", "o", "n", "a", "d">>, "monad-mainnet", <<>>>>,
    <<<<"m", "o", "n", "a", "d", "-", "m", "a", "i", "n", "n", "e", "t">>, "monad-mainnet", <<>>>>,
    <<<<"m", "o", "n", "a", "d", "-", "t", "e", "s", "t", "n", "e", "t">>, "monad-testnet", <<>>>>,
    <<<<"i", "n", "k">>, "ink-mainnet", <<>>>>,
    <<<<"i", "n", "k", "-", "m", "a", "i", "n", "n", "e", "t">>, "ink-mainnet", <<>>>>,
    <<<<"i", "n", "k", "-", "s", "e", "p", "o", "l", "i", "a">>, "ink-sepolia", <<>>>>,
    <<<<"l", "e", "n", "s">>, "lens-mainnet", <<>>>>,
    <<<<"l", "e", "n", "s", "-", "m", "a", "i", "n", "n", "e", "t">>, "lens-mainnet", <<>>>>,
    <<<<"l", "e", "n", "s", "-", "s", "e", "p", "o", "l", "i", "a">>, "lens-sepolia", <<>>>>,
    <<<<"g", "n", "o", "s", "i", "s">>, "gnosis-mainnet", <<>>>>,
    <<<<"g", "n", "o", "s", "i", "s", "-", "m", "a", "i", "n", "n", "e", "t">>, "gnosis-mainnet", <<>>>>,
    <<<<"g", "n", "o", "s", "i", "s", "-", "c", "h", "i", "a", "d", "o">>, "gnosis-chiado", <<>>>>,
    <<<<"m", "e", "t", "i", "s">>, "metis-mainnet", <<>>>>,
    <<<<"m", "e", "t", "i", "s", "-", "m", "a", "i", "n", "n", "e", "t">>, "metis-mainnet", <<>>>>,
    <<<<"m", "o", "o", "n", "b", "e", "a", "m">>, "moonbeam-mainnet", <<>>>>,
    <<<<"m", "o", "o", "n", "b", "e", "a", "m", "-", "m", "a", "i", "n", "n", "e", "t">>, "moonbeam-mainnet", <<>>>>,
    <<<<"z", "o", "r", "a">>, "zora-mainnet", <<>>>>,
    <<<<"z", "o", "r", "a", "-", "m", "a", "i", "n", "n", "e", "t">>, "zora-mainnet", <<>>>>,
    <<<<"z", "o", "r", "a", "-", "s", "e", "p", "o", "l", "i", "a">>, "zora-sepolia", <<>>>>,
    <<<<"m", "o", "d", "e">>, "mode-mainnet", <<>>>>,
    <<<<"m", "o", "d", "e", "-", "m", "a", "i", "n", "n", "e", "t">>, "mode-mainnet", <<>>>>,
    <<<<"m", "o", "d", "e", "-", "s", "e", "p", "o", "l", "i", "a">>, "mode-sepolia", <<>>>>,
    <<<<"a", "s", "t", "a", "r">>, "astar-mainnet", <<>>>>,
    <<<<"a", "s", "t", "a", "r", "-", "m", "a", "i", "n", "n", "e", "t">>, "astar-mainnet", <<>>>>,
    <<<<"z", "e", "t", "a", "c", "h", "a", "i", "n">>, "zetachain-mainnet", <<>>>>,
    <<<<"z", "e", "t", "a", "c", "h", "a", "i", "n", "-", "m", "a", "i", "n", "n", "e", "t">>, "zetachain-mainnet", <<>>>>,
    <<<<"z", "e", "t", "a", "c", "h", "a", "i", "n", "-", "t", "e", "s", "t", "n", "e", "t">>, "zetachain-testnet", <<>>>>,
    <<<<"s", "o", "n", "e", "i", "u", "m">>, "soneium-mainnet", <<>>>>,
    <<<<"s", "o", "n", "e", "i", "u", "m", "-", "m", "a", "i", "n", "n", "e", "t">>, "soneium-mainnet", <<>>>>,
    <<<<"s", "o", "n", "e", "i", "u", "m", "-", "m", "i", "n", "a", "t", "o">>, "soneium-minato", <<>>>>,
    <<<<"a", "b", "s", "t", "r", "a", "c", "t">>, "abstract-mainnet", <<>>>>,
    <<<<"a", "b", "s", "t", "r", "a", "c", "t", "-", "m", "a", "i", "n", "n", "e", "t">>, "abstract-mainnet", <<>>>>,
    <<<<"a", "b", "s", "t", "r", "a", "c", "t", "-", "t", "e", "s", "t", "n", "e", "t">>, "abstract-testnet", <<>>>>,
    <<<<"a", "n", "i", "m", "e">>, "anime-mainnet", <<>>>>,
    <<<<"a", "n", "i", "m", "e", "-", "m", "a", "i", "n", "n", "e", "t">>, "anime-mainnet", <<>>>>,
    <<<<"a", "n", "i", "m", "e", "-", "s", "e", "p", "o", "l", "i", "a">>, "anime-sepolia", <<>>>>,
    <<<<"a", "p", "e", "c", "h", "a", "i", "n">>, "apechain-mainnet", <<>>>>,
    <<<<"a", "p", "e", "c", "h", "a", "i", "n", "-", "m", "a", "i", "n", "n", "e", "t">>, "apechain-mainnet", <<>>>>,
    <<<<"a", "p", "e", "c", "h", "a", "i", "n", "-", "c", "u", "r", "t", "i", "s">>, "apechain-curtis", <<>>>>,
    <<<<"a", "p", "t", "o", "s">>, "aptos-mainnet", <<>>>>,
    <<<<"a", "p", "t", "o", "s", "-", "m", "a", "i", "n", "n", "e", "t">>, "aptos-mainnet", <<>>>>,
    <<<<"a", "p", "t", "o", "s", "-", "t", "e", "s", "t", "n", "e", "t">>, "aptos-testnet", <<>>>>,
    <<<<"s", "t", "o", "r", "y">>, "story-mainnet", <<>>>>,
    <<<<"s", "t", "o", "r", "y", "-", "m", "a", "i", "n", "n", "e", "t">>, "story-mainnet", <<>>>>,
    <<<<"s", "t", "o", "r", "y", "-", "a", "e", "n", "e", "i", "d">>, "story-aeneid", <<>>>>,
    <<<<"s", "u", "p", "e", "r", "s", "e", "e", "d">>, "superseed-mainnet", <<>>>>,
    <<<<"s", "u", "p", "e", "r", "s", "e", "e", "d", "-", "m", "a", "i", "n", "n", "e", "t">>, "superseed-mainnet", <<>>>>,
    <<<<"s", "u", "p", "e", "r", "s", "e", "e", "d", "-", "s", "e", "p", "o", "l", "i", "a">>, "superseed-sepolia", <<>>>>,
    <<<<"f", "l", "o", "w">>, "flow-mainnet", <<>>>>,
    <<<<"f", "l", "o", "w", "-", "m", "a", "i", "n", "n", "e", "t">>, "flow-mainnet", <<>>>>,
    <<<<"f", "l", "o", "w", "-", "t", "e", "s", "t", "n", "e", "t">>, "flow-testnet", <<>>>>,
    <<<<"f", "r", "a", "x">>, "frax-mainnet", <<>>>>,
    <<<<"f", "r", "a", "x", "-", "m", "a", "i", "n", "n", "e", "t">>, "frax-mainnet", <<>>>>,
    <<<<"f", "r", "a", "x", "-", "s", "e", "p", "o", "l", "i", "a">>, "frax-sepolia", <<>>>>,
    <<<<"b", "o", "b">>, "bob-mainnet", <<>>>>,
    <<<<"b", "o", "b", "-", "m", "a", "i", "n", "n", "e", "t">>, "bob-mainnet", <<>>>>,
    <<<<"b", "o", "b", "-", "s", "e", "p", "o", "l", "i", "a">>, "bob-sepolia", <<>>>>,
    <<<<"c", "r", "o", "s", "s", "f", "i">>, "crossfi-mainnet", <<>>>>,
    <<<<"c", "r", "o", "s", "s", "f", "i", "-", "m", "a", "i", "n", "n", "e", "t">>, "crossfi-mainnet", <<>>>>,
    <<<<"c", "r", "o", "s", "s", "f", "i", "-", "t", "e", "s", "t", "n", "e", "t">>, "crossfi-testnet", <<>>>>,
    <<<<"r", "o", "o", "t", "s", "t", "o", "c", "k">>, "rootstock-mainnet", <<>>>>,
    <<<<"r", "o", "o", "t", "s", "t", "o", "c", "k", "-", "m", "a", "i", "n", "n", "e", "t">>, "rootstock-mainnet", <<>>>>,
    <<<<"r", "o", "o", "t", "s", "t", "o", "c", "k", "-", "t", "e", "s", "t", "n", "e", "t">>, "rootstock-testnet", <<>>>>,
    <<<<"s", "h", "a", "p", "e">>, "shape-mainnet", <<>>>>,
    <<<<"s", "h", "a", "p", "e", "-", "m", "a", "i", "n", "n", "e", "t">>, "shape-mainnet", <<>>>>,
    <<<<"s", "h", "a", "p", "e", "-", "s", "e", "p", "o", "l", "i", "a">>, "shape-sepolia", <<>>>>,
    <<<<"b", "o", "t", "a", "n", "i", "x">>, "botanix-mainnet", <<>>>>,
    <<<<"b", "o", "t", "a", "n", "i", "x", "-", "m", "a", "i", "n", "n", "e", "t">>, "botanix-mainnet", <<>>>>,
    <<<<"b", "o", "t", "a", "n", "i", "x", "-", "t", "e", "s", "t", "n", "e", "t">>, "botanix-testnet", <<>>>>,
    <<<<"d", "e", "g", "e", "n">>, "degen-mainnet", <<>>>>,
    <<<<"d", "e", "g", "e", "n", "-", "m", "a", "i", "n", "n", "e", "t">>, "degen-mainnet", <<>>>>,
    <<<<"d", "e", "g", "e", "n", "-", "s", "e", "p", "o", "l", "i", "a">>, "degen-sepolia", <<>>>>,
    <<<<"b", "i", "t", "c", "o", "i", "n">>, "bitcoin-mainnet", <<>>>>,
    <<<<"b", "t", "c">>, "bitcoin-mainnet", <<>>>>,
    <<<<"b", "i", "t", "c", "o", "i", "n", "-", "m", "a", "i", "n", "n", "e", "t">>, "bitcoin-mainnet", <<>>>>,
    <<<<"b", "i", "t", "c", "o", "i", "n", "-", "t", "e", "s", "t", "n", "e", "t">>, "bitcoin-testnet", <<>>>>,
    <<<<"b", "i", "t", "c", "o", "i", "n", "-", "s", "i", "g", "n", "e", "t">>, "bitcoin-signet", <<>>>>,
    <<<<"s", "u", "i">>, "sui-mainnet", <<>>>>,
    <<<<"s", "u", "i", "-", "m", "a", "i", "n", "n", "e", "t">>, "sui-mainnet", <<>>>>,
    <<<<"s", "u", "i", "-", "t", "e", "s", "t", "n", "e", "t">>, "sui-testnet", <<>>>>,
    <<<<"r", "o", "n", "i", "n">>, "ronin-mainnet", <<>>>>,
    <<<<"r", "o", "n", "i", "n", "-", "m", "a", "i", "n", "n", "e", "t">>, "ronin-mainnet", <<>>>>,
    <<<<"r", "o", "n", "i", "n", "-", "s", "a", "i", "g", "o", "n">>, "ronin-saigon", <<>>>>,
    <<<<"b", "o", "b", "a">>, "boba-mainnet", <<>>>>,
    <<<<"b", "o", "b", "a", "-", "m", "a", "i", "n", "n", "e", "t">>, "boba-mainnet", <<>>>>,
    <<<<"b", "o", "b", "a", "-", "s", "e", "p", "o", "l", "i", "a">>, "boba-sepolia", <<>>>>,
    <<<<"m", "e", "g", "a", "e", "t", "h">>, "megaeth-mainnet", <<>>>>,
    <<<<"m", "e", "g", "a", "e", "t", "h", "-", "m", "a", "i", "n", "n", "e", "t">>, "megaeth-mainnet", <<>>>>,
    <<<<"m", "e", "g", "a", "e", "t", "h", "-", "t", "e", "s", "t", "n", "e", "t">>, "megaeth-testnet", <<>>>>,
    <<<<"p", "o", "l", "y", "n", "o", "m", "i", "a", "l">>, "polynomial-mainnet", <<>>>>,
    <<<<"p", "o", "l", "y", "n", "o", "m", "i", "a", "l", "-", "m", "a", "i", "n", "n", "e", "t">>, "polynomial-mainnet", <<>>>>,
    <<<<"p", "o", "l", "y", "n", "o", "m", "i", "a", "l", "-", "s", "e", "p", "o", "l", "i", "a">>, "polynomial-sepolia", <<>>>>,
    <<<<"t", "r", "o", "n">>, "tron-mainnet", <<>>>>,
    <<<<"t", "r", "o", "n", "-", "m", "a", "i", "n", "n", "e", "t">>, "tron-mainnet", <<>>>>,
    <<<<"t", "r", "o", "n", "-", "t", "e", "s", "t", "n", "e", "t">>, "tron-testnet", <<>>>>,
    <<<<"c", "l", "a", "n", "k", "e", "r", "m", "o", "n">>, "clankermon-mainnet", <<>>>>,
    <<<<"c", "l", "a", "n", "k", "e", "r", "m", "o", "n", "-", "m", "a", "i", "n", "n", "e", "t">>, "clankermon-mainnet", <<>>>>,
    <<<<"h", "u", "m", "a", "n", "i", "t", "y">>, "humanity-mainnet", <<>>>>,
    <<<<"h", "u", "m", "a", "n", "i", "t", "y", "-", "m", "a", "i", "n", "n", "e", "t">>, "humanity-mainnet", <<>>>>,
    <<<<"h", "u", "m", "a", "n", "i", "t", "y", "-", "t", "e", "s", "t", "n", "e", "t">>, "humanity-testnet", <<>>>>,
    <<<<"g", "a", "l", "a", "c", "t", "i", "c", "a">>, "galactica-mainnet", <<>>>>,
    <<<<"g", "a", "l", "a", "c", "t", "i", "c", "a", "-", "m", "a", "i", "n", "n", "e", "t">>, "galactica-mainnet", <<>>>>,
    <<<<"g", "a", "l", "a", "c", "t", "i", "c", "a", "-", "c", "a", "s", "s", "i", "o", "p", "e", "i", "a">>, "galactica-cassiopeia", <<>>>>,
    <<<<"s", "c", "r", "o", "l", "l", "-", "r", "a", "c", "e">>, "race-mainnet", <<>>>>,
    <<<<"r", "a", "c", "e">>, "race-mainnet", <<>>>>,
    <<<<"r", "a", "c", "e", "-", "m", "a", "i", "n", "n", "e", "t">>, "race-mainnet", <<>>>>,
    <<<<"r", "a", "c", "e", "-", "s", "e", "p", "o", "l", "i", "a">>, "race-sepolia", <<>>>>>>

ChainKeys == {CHAINS[i][1] : i \in 1..Len(CHAINS)}

\* the properties every object literal inherits from Object.prototype
ObjectPrototypeKeys == {
    <<"c", "o", "n", "s", "t", "r", "u", "c", "t", "o", "r">>,
    <<"_", "_", "p", "r", "o", "t", "o", "_", "_">>,
    <<"h", "a", "s", "O", "w", "n", "P", "r", "o", "p", "e", "r", "t", "y">>,
    <<"i", "s", "P", "r", "o", "t", "o", "t", "y", "p", "e", "O", "f">>,
    <<"p", "r", "o", "p", "e", "r", "t", "y", "I", "s", "E", "n", "u", "m", "e", "r", "a", "b", "l", "e">>,
    <<"t", "o", "L", "o", "c", "a", "l", "e", "S", "t", "r", "i", "n", "g">>,
    <<"t", "o", "S", "t", "r", "i", "n", "g">>,
    <<"v", "a", "l", "u", "e", "O", "f">>,
    <<"_", "_", "d", "e", "f", "i", "n", "e", "G", "e", "t", "t", "e", "r", "_", "_">>,
    <<"_", "_", "d", "e", "f", "i", "n", "e", "S", "e", "t", "t", "e", "r", "_", "_">>,
    <<"_", "_", "l", "o", "o", "k", "u", "p", "G", "e", "t", "t", "e", "r", "_", "_">>,
    <<"_", "_", "l", "o", "o", "k", "u", "p", "S", "e", "t", "t", "e", "r", "_", "_">>}

\* an own-property lookup: Object.hasOwn(CHAINS, alias) ? CHAINS[alias] : undefined
OwnChain(alias) ==
    IF alias \in ChainKeys
    THEN LET i == CHOOSE n \in 1..Len(CHAINS) : CHAINS[n][1] = alias
         IN  <<[slug |-> <<CHAINS[i][2]>>, template |-> CHAINS[i][3]]>>
    ELSE <<>>

\* CHAINS[alias]: the own entry, else what the prototype chain holds under that
\* name (an object or function with neither slug nor template), else undefined
ChainLookup(alias) ==
    IF alias \in ChainKeys THEN OwnChain(alias)
    ELSE IF alias \in ObjectPrototypeKeys THEN <<[slug |-> <<>>, template |-> <<>>]>>
    ELSE <<>>

\* process.env["ALCHEMY_API_KEY"], required at startup
ALCHEMY_KEY == "alchemy-key"

\* `${chain.slug}` in a template literal
SlugText(chain) == IF chain.slug = <<>> THEN "undefined" ELSE chain.slug[1]

buildAlchemyUrl(chain) ==
    IF chain.template = <<"starknet">>
    THEN <<"https://", SlugText(chain), ".g.alchemy.com/starknet/version/rpc/v0_10/",
           ALCHEMY_KEY>>
    ELSE <<"https://", SlugText(chain), ".g.alchemy.com/v2/", ALCHEMY_KEY>>

UnknownChainResp(alias) ==
    Json(400, [error |-> <<"Unknown chain: \"">> \o alias
                          \o <<"\". GET /atlas-os/rpc for full list.">>])

JsonParseErrorMsg == <<"Unexpected token in JSON">>

\* Response.ok
IsOk(status) == status >= 200 /\ status <= 299

\* if (!upstream.ok) ctx.status(upstream.status); ctx.json(data) answers 200 otherwise
RelayedStatus(status) == IF IsOk(status) THEN 200 ELSE status

\* GET /atlas-os/rpc
GwRpcList ==
    /\ gw.pc = "route" /\ gw.endpoint = "rpc.list"
    /\ gw' = GwRespond(Json(200, [chains |-> ChainKeys]))
    /\ UNCHANGED <<compute_usage, denials, keysVars, swapVars, first, bootVars>>

\* POST /atlas-os/rpc/:chain up to its fetch
GwRpcPost(param, body) ==
    /\ gw.pc = "route" /\ gw.endpoint = "rpc.post"
    /\ LET alias == toLowerCase(param)
           chain == ChainLookup(alias)
       IN  IF chain = <<>>
           THEN gw' = [gw EXCEPT !.pc = "done", !.alias = <<param>>,
                                 !.resp = <<UnknownChainResp(alias)>>]
           ELSE gw' = [gw EXCEPT !.pc = "fetch", !.alias = <<param>>, !.chain = chain,
                                 !.body = <<body>>,
                                 !.sent = <<[url |-> buildAlchemyUrl(chain[1]),
                                             method |-> "POST", body |-> body]>>,
                                 !.calls = gw.calls + 1]
    /\ UNCHANGED <<compute_usage, denials, keysVars, swapVars, first, bootVars>>

\* the upstream answers the RPC call: upstream.json(), then the relay
GwRpcReply(status, data) ==
    /\ gw.pc = "fetch" /\ gw.endpoint = "rpc.post"
    /\ gw' = [gw EXCEPT !.pc = "done", !.alias = <<>>, !.chain = <<>>, !.body = <<>>,
                        !.sent = <<>>, !.got = <<[status |-> status, data |-> data]>>,
                        !.resp = <<IF data = <<>>
                                   THEN errorHandler(JsonParseErrorMsg)
                                   ELSE Json(RelayedStatus(status), data[1])>>]
    /\ UNCHANGED <<compute_usage, denials, keysVars, swapVars, first, bootVars>>

\* routes/atlas-os/compute/usage.ts

InvalidJsonResp == Json(400, [error |-> <<"Invalid JSON body">>])
ActionRequiredResp == Json(400, [error |-> <<"'action' is required (string)">>])
ErrorMsgRequiredResp ==
    Json(400, [error |-> <<"'error_msg' is required when status is 'error'">>])

\* a property of the parsed body: undefined or its value
Prop(body, k) == IF k \in DOMAIN body THEN <<body[k]>> ELSE <<>>

\* JSON values: a string is its text; a value of another type is written "#"
\* followed by its literal (<<"#", "null">>, <<"#", "0">>, <<"#", "7">>)
IsString(value) == value = <<>> \/ value[1] # "#"

IsNull(value) == value = <<"#", "null">>

\* !value is false
JsTruthy(opt) ==
    /\ opt # <<>>
    /\ opt[1] \notin {<<>>, <<"#", "null">>, <<"#", "0">>, <<"#", "false">>}

\* value ?? null, as the store reads the parameter: <<>> is NULL
OrNull(opt) == IF opt = <<>> \/ IsNull(opt[1]) THEN <<>> ELSE opt

\* a parameter bound to a TEXT column: a value that is no string is written out
AsText(value) == IF IsString(value) THEN value ELSE SubSeq(value, 2, Len(value))

StatusValues == {<<"success">>, <<"error">>, <<"pending">>}

CheckViolationMsg == <<"pg: new row violates a constraint of compute_usage">>

\* a row that takes its principal from the request body when the body names one
UsageRowFromBody(userId, apiKeyId, body) ==
    [user_id |-> IF "user_id" \in DOMAIN body THEN body.user_id ELSE userId,
     api_key_id |-> apiKeyId,
     action |-> AsText(body.action),
     status |-> OrNull(<<Coalesce(Prop(body, "status"), <<"success">>)>>),
     error_msg |-> OrNull(Prop(body, "error_msg"))]

\* the values of the INSERT: the principal and the credential are those of the context
UsageRow(userId, apiKeyId, body) ==
    [user_id |-> userId,
     api_key_id |-> apiKeyId,
     action |-> AsText(body.action),
     status |-> OrNull(<<Coalesce(Prop(body, "status"), <<"success">>)>>),
     error_msg |-> OrNull(Prop(body, "error_msg"))]

\* a table without constraints on status
PassesNoCheck(row) == TRUE

\* status TEXT NOT NULL CHECK (status IN ('success', 'error', 'pending'))
PassesCheck(row) == row.status # <<>> /\ AsText(row.status[1]) \in StatusValues

\* api_key_id UUID REFERENCES api_keys(id): NULL, or the id of a row of api_keys
References(row) ==
    row.api_key_id = <<>> \/ \E key \in api_keys : key.id = row.api_key_id[1]

\* the row as the table holds it
Stored(row, id) ==
    [id |-> id, user_id |-> row.user_id, api_key_id |-> row.api_key_id,
     action |-> row.action, status |-> AsText(row.status[1]),
     error_msg |-> IF row.error_msg = <<>> THEN <<>> ELSE <<AsText(row.error_msg[1])>>]

\* POST /atlas-os/compute/usage: body is undefined when it is not JSON
GwUsagePost(body) ==
    /\ gw.pc = "route" /\ gw.endpoint = "usage.post"
    /\ Cardinality(compute_usage) < MaxUsage
    /\ \E ok \in BOOLEAN :
         LET Reject(response) ==
                 /\ gw' = [GwRespond(response) EXCEPT !.body = body]
                 /\ UNCHANGED compute_usage
         IN  IF body = <<>>
             THEN Reject(InvalidJsonResp)
             ELSE LET action == Prop(body[1], "action")
                      status == Coalesce(Prop(body[1], "status"), <<"success">>)
                      error_msg == Prop(body[1], "error_msg")
                      id == Cardinality(compute_usage) + 1
                  IN  IF ~JsTruthy(action) \/ ~IsString(action[1])
                      THEN Reject(ActionRequiredResp)
                      ELSE IF status = <<"error">> /\ ~JsTruthy(error_msg)
                      THEN Reject(ErrorMsgRequiredResp)
                      ELSE IF ~ok
                      THEN Reject(errorHandler(DbErrorMsg))
                      ELSE IF \/ ~PassesCheck(UsageRow(gw.userId, gw.apiKeyId, body[1]))
                              \/ ~References(UsageRow(gw.userId, gw.apiKeyId, body[1]))
                      THEN Reject(errorHandler(CheckViolationMsg))
                      ELSE /\ compute_usage' = compute_usage \cup
                                {Stored(UsageRow(gw.userId, gw.apiKeyId, body[1]), id)}
                           /\ gw' = [GwRespond(Json(201, [data |-> [id |-> id]]))
                                        EXCEPT !.body = body]
    /\ UNCHANGED <<denials, keysVars, swapVars, first, bootVars>>

\* the usage queries: GET /atlas-os/compute/usage and GET /keys/compute-usage

DigitChars == <<"0", "1", "2", "3", "4", "5", "6", "7", "8", "9">>

IsDigit(c) == \E i \in 1..Len(DigitChars) : DigitChars[i] = c

DigitValue(c) == (CHOOSE i \in 1..Len(DigitChars) : DigitChars[i] = c) - 1

\* the value of the digits of text from position i on, up to the first other character
RECURSIVE LeadingDigits(_, _, _)
LeadingDigits(text, i, acc) ==
    IF i > Len(text) \/ ~IsDigit(text[i]) THEN acc
    ELSE LeadingDigits(text, i + 1, 10 * acc + DigitValue(text[i]))

\* parseInt(text, 10): <<>> is NaN
parseInt(text) ==
    LET t == TrimStart(text)
        signed == t # <<>> /\ t[1] \in {"-", "+"}
        from == IF signed THEN 2 ELSE 1
    IN  IF from > Len(t) \/ ~IsDigit(t[from]) THEN <<>>
        ELSE IF signed /\ t[1] = "-" THEN <<0 - LeadingDigits(t, from, 0)>>
        ELSE <<LeadingDigits(t, from, 0)>>

\* Math.min(a, b): NaN when an argument is NaN
MathMin(a, b) ==
    IF a = <<>> \/ b = <<>> THEN <<>> ELSE IF a[1] <= b[1] THEN a ELSE b

UsageDefaultLimit == <<"5", "0">>
UsageMaxLimit == 200
KeysUsageDefaultLimit == <<"2", "0", "0">>
KeysUsageMaxLimit == 500
DefaultOffset == <<"0">>

\* Math.min(parseInt(query("limit") ?? default, 10), max)
EffectiveLimit(q, default, max) ==
    MathMin(parseInt(Coalesce(QueryOf(q, "limit"), default)), <<max>>)

\* parseInt(query("offset") ?? "0", 10)
EffectiveOffset(q) == parseInt(Coalesce(QueryOf(q, "offset"), DefaultOffset))

\* WHERE user_id = $1 [AND action = $2] [AND status = $3]
UsageWhere(userId, q) ==
    {row \in compute_usage :
        /\ row.user_id = <<userId>>
        /\ Truthy(QueryOf(q, "action")) => row.action = q.action
        /\ Truthy(QueryOf(q, "status")) => row.status = q.status}

\* the columns of the SELECT
UsageColumns(row) ==
    [id |-> row.id, action |-> row.action, status |-> row.status, error_msg |-> row.error_msg]

\* ORDER BY created_at DESC: the rows were created in the order of their ids
RECURSIVE NewestFirst(_)
NewestFirst(rows) ==
    IF rows = {} THEN <<>>
    ELSE LET newest == CHOOSE r \in rows : \A t \in rows : t.id <= r.id
         IN  <<newest>> \o NewestFirst(rows \ {newest})

\* LIMIT limit OFFSET offset
Page(rows, limit, offset) ==
    IF offset >= Len(rows) \/ limit = 0 THEN <<>>
    ELSE SubSeq(rows, offset + 1, IF offset + limit < Len(rows) THEN offset + limit ELSE Len(rows))

LimitErrorMsg == <<"pg: LIMIT and OFFSET must be non-negative integers">>

\* the two queries of the handler and its response
UsageQuery(userId, q, default, max) ==
    LET limit == EffectiveLimit(q, default, max)
        offset == EffectiveOffset(q)
        rows == NewestFirst(UsageWhere(userId, q))
    IN  IF limit = <<>> \/ offset = <<>> \/ limit[1] < 0 \/ offset[1] < 0
        THEN errorHandler(LimitErrorMsg)
        ELSE Json(200, [data |-> [i \in 1..Len(Page(rows, limit[1], offset[1])) |->
                                      UsageColumns(Page(rows, limit[1], offset[1])[i])],
                        meta |-> [total |-> Len(rows), limit |-> limit[1],
                                  offset |-> offset[1]]])

\* GET /atlas-os/compute/usage
GwUsageGet(q) ==
    /\ gw.pc = "route" /\ gw.endpoint = "usage.get"
    /\ \E ok \in BOOLEAN :
         gw' = [GwRespond(IF ok
                          THEN UsageQuery(gw.userId[1], q, UsageDefaultLimit, UsageMaxLimit)
                          ELSE errorHandler(DbErrorMsg))
                    EXCEPT !.body = <<q>>]
    /\ UNCHANGED <<compute_usage, denials, keysVars, swapVars, first, bootVars>>

\* GET /keys/compute-usage, up to its queries
KeysUsageGet(r, u, q) ==
    /\ CanStart(r)
    /\ reqs' = [reqs EXCEPT ![r] =
            [IdleReq EXCEPT !.op = "usage", !.user = u, !.pc = "query", !.record = <<q>>]]
    /\ UNCHANGED <<api_keys, nextId, clock, cache, last, seen, afterMut, mutated, returned,
                   completed, overlap, answered, swapVars, first, gwVars, bootVars>>

\* the queries of GET /keys/compute-usage are answered
KeysUsageQuery(r) ==
    /\ reqs[r].op = "usage" /\ reqs[r].pc = "query"
    /\ \E ok \in BOOLEAN :
         RespondReq(r, IF ok
                       THEN UsageQuery(reqs[r].user, reqs[r].record[1],
                                       KeysUsageDefaultLimit, KeysUsageMaxLimit)
                       ELSE errorHandler(DbErrorMsg))
    /\ UNCHANGED <<api_keys, nextId, clock, cache, mutated, completed, overlap, swapVars,
                   first, gwVars, bootVars>>

\* routes/atlas-os/market/dex: answered from the data of the module
GwDexGet ==
    /\ gw.pc = "route" /\ gw.endpoint = "dex.get"
    /\ gw' = GwRespond(Json(200, [data |-> <<"dex">>]))
    /\ UNCHANGED <<compute_usage, denials, keysVars, swapVars, first, bootVars>>

\* routes/atlas-os/0x: GET price and quote behind the gateway, up to the fetch
GwSwapGet(q) ==
    /\ gw.pc = "route" /\ gw.endpoint \in {"0x.price", "0x.quote"}
    /\ LET h == IF gw.endpoint = "0x.price"
                THEN SwapHandle("price", PriceRequired, PricePath, q, env)
                ELSE SwapHandle("quote", QuoteRequired, QuotePath, q, env)
       IN  IF h.pc = "done"
           THEN gw' = GwRespond(h.resp[1])
           ELSE gw' = [gw EXCEPT !.pc = "fetch",
                                 !.sent = <<[url |-> h.url[1], method |-> "GET",
                                             body |-> <<>>]>>,
                                 !.calls = gw.calls + 1]
    /\ UNCHANGED <<compute_usage, denials, keysVars, swapVars, first, bootVars>>

ChainsKeyMissingResp == Json(503, [error |-> <<"0x API key not configured">>])

\* GET /atlas-os/0x/swap/chains up to the fetch
GwChainsGet ==
    /\ gw.pc = "route" /\ gw.endpoint = "0x.chains"
    /\ IF ~Truthy(env.ZERO_EX_API_KEY)
       THEN gw' = GwRespond(ChainsKeyMissingResp)
       ELSE gw' = [gw EXCEPT !.pc = "fetch",
                             !.sent = <<[url |-> <<ZERO_EX_BASE, "/swap/chains">>,
                                         method |-> "GET", body |-> <<>>]>>,
                             !.calls = gw.calls + 1]
    /\ UNCHANGED <<compute_usage, denials, keysVars, swapVars, first, bootVars>>

\* the 0x API answers: its status and JSON body are relayed
GwSwapReply(status) ==
    /\ gw.pc = "fetch" /\ Mount(gw.endpoint) = "0x"
    /\ gw' = [gw EXCEPT !.pc = "done", !.sent = <<>>,
                        !.got = <<[status |-> status, data |-> <<UpstreamBody(status)>>]>>,
                        !.resp = <<Json(status, UpstreamBody(status))>>]
    /\ UNCHANGED <<compute_usage, denials, keysVars, swapVars, first, bootVars>>

\* fetch rejects: the swap handlers catch it (503), the others throw to errorHandler
GwFetchFails ==
    /\ gw.pc = "fetch"
    /\ gw' = [gw EXCEPT !.pc = "done", !.alias = <<>>, !.chain = <<>>, !.body = <<>>,
                        !.sent = <<>>,
                        !.resp = <<IF gw.endpoint \in {"0x.price", "0x.quote"}
                                   THEN UpstreamError(FetchFailedMsg)
                                   ELSE errorHandler(FetchFailedMsg)>>]
    /\ UNCHANGED <<compute_usage, denials, keysVars, swapVars, first, bootVars>>

\* the response is sent; the next request can be served
GwClose ==
    /\ gw.pc = "done"
    /\ gw' = IdleGw
    /\ UNCHANGED <<compute_usage, denials, keysVars, swapVars, first, bootVars>>

----------------------------------------------------------------------------
(* Gateway inputs *)

Xyz == <<"x", "y", "z">>

\* X-API-Key and Authorization headers: absent, empty, malformed, and every
\* way of carrying a key the code accepts
HeaderInputs ==
    {[xApiKey |-> <<>>, authorization |-> <<>>],
     [xApiKey |-> <<<<>>>>, authorization |-> <<>>],
     [xApiKey |-> <<Xyz>>, authorization |-> <<>>],
     [xApiKey |-> <<AtlPrefix>>, authorization |-> <<>>],
     [xApiKey |-> <<>>, authorization |-> <<Bearer \o <<" ">> \o Xyz>>]}
    \cup UNION {
        {[xApiKey |-> <<k>>, authorization |-> <<>>],
         [xApiKey |-> <<toUpperCase(k)>>, authorization |-> <<>>],
         [xApiKey |-> <<>>, authorization |-> <<k>>],
         [xApiKey |-> <<>>, authorization |-> <<Bearer \o <<" ">> \o k>>],
         [xApiKey |-> <<>>, authorization |-> <<toLowerCase(Bearer) \o <<" ", " ">> \o k>>],
         [xApiKey |-> <<>>, authorization |-> <<Bearer \o k>>],
         [xApiKey |-> <<>>, authorization |-> <<<<"B", "a", "s", "i", "c", " ">> \o k>>],
         [xApiKey |-> <<<<>>>>, authorization |-> <<Bearer \o <<" ">> \o k>>]} :
        k \in RawKeys}

Capitalize(text) == [i \in 1..Len(text) |-> IF i = 1 THEN UpperChar(text[i]) ELSE text[i]]

\* an alias as the table spells it, in capitals, and capitalized
Spellings(alias) == {alias, toUpperCase(alias), Capitalize(alias)}

\* path parameters that are no alias of the table
UnknownAliases ==
    UNION {Spellings(a) :
        a \in {<<"n", "o", "c", "h", "a", "i", "n">>, <<"e", "t", "h", "x">>} \cup
              ObjectPrototypeKeys}

AliasInputs == UNION {Spellings(a) : a \in ChainKeys} \cup UnknownAliases

JsonRpcBody == <<"{\"jsonrpc\":\"2.0\",\"method\":\"eth_blockNumber\",\"id\":1}">>

\* request bodies of POST /rpc/:chain: JSON-RPC, something that is not JSON, nothing
RpcBodies == {JsonRpcBody, <<"not json">>, <<>>}

Eth == <<"e", "t", "h">>

\* every alias with a JSON-RPC body, and every body for two aliases
RpcInputs ==
    {<<a, JsonRpcBody>> : a \in AliasInputs}
    \cup {<<a, b>> : a \in {Eth, <<"x">>}, b \in RpcBodies}

\* the RPC requests sent when all routes are exercised together
GwRpcInputs ==
    {<<a, JsonRpcBody>> : a \in {Eth, toUpperCase(Eth), <<"x">>}}

\* the headers sent when the RPC route is exercised alone
RpcHeaders == {h \in HeaderInputs : h.xApiKey \in {<<k>> : k \in RawKeys}}

RpcStatuses == {200, 201, 400, 429, 500}

\* what the upstream answers: a JSON value, or a body that is not JSON (<<>>)
RpcData(status) == {<<>>, <<[jsonrpc |-> "2.0", id |-> 1, upstream |-> status]>>}

PerpTrade == <<"perp.trade">>

\* request bodies: no JSON, and JSON objects with and without each property,
\* with values of the right and of the wrong type
UsageBodies ==
    {<<>>, <<EmptyFn>>, <<[action |-> <<>>]>>, <<[action |-> PerpTrade]>>,
     <<[action |-> <<"#", "7">>]>>,
     <<[action |-> PerpTrade, status |-> <<"error">>]>>,
     <<[action |-> PerpTrade, status |-> <<"error">>, error_msg |-> <<>>]>>,
     <<[action |-> PerpTrade, status |-> <<"error">>, error_msg |-> <<"#", "0">>]>>,
     <<[action |-> PerpTrade, status |-> <<"error">>, error_msg |-> <<"boom">>]>>,
     <<[action |-> PerpTrade, status |-> <<"pending">>, error_msg |-> <<"#", "null">>]>>,
     <<[action |-> PerpTrade, status |-> <<"done">>]>>,
     <<[action |-> PerpTrade, status |-> <<"#", "null">>]>>,
     <<[action |-> PerpTrade, user_id |-> <<"u2">>, api_key_id |-> <<"2">>]>>}

\* query strings of the usage queries: limits at, around and far from the maximum
UsageLimits ==
    {<<>>, <<"1">>, <<"2", "0", "0">>, <<"2", "0", "1">>, <<"5", "0", "0">>,
     <<"5", "0", "1">>, <<"-", "1">>, <<"a", "b", "c">>}

UsageQueries ==
    {EmptyFn, "offset" :> <<"1">>, "status" :> <<"error">>, "limit" :> <<>>}
    \cup {"limit" :> l : l \in UsageLimits}

\* a malformed key, and the raw key of every credential issued
UsageHeaders ==
    {[xApiKey |-> <<Xyz>>, authorization |-> <<>>]}
    \cup {[xApiKey |-> <<k>>, authorization |-> <<>>] : k \in RawKeys}

GwQueries == CompleteInputs \cup {EmptyFn}

\* the state n completed Issue requests leave behind
KeysAfterIssues(n) ==
    /\ api_keys = IssuedStore(n)
    /\ nextId = n
    /\ clock = n
    /\ cache = [u \in Users |-> <<>>]
    /\ reqs = [r \in Slots |-> IF r <= n THEN DoneReq ELSE IdleReq]
    /\ last = IF n = 0 THEN NoLast
              ELSE [slot |-> n, op |-> "issue", user |-> IssuedRow(n).user_id, id |-> n,
                    resp |-> <<Json(201, [key |-> generateApiKey([i \in 1..KeyBytes |-> n - 1]),
                                          record |-> Jsonify(SelectColumns(IssuedRow(n)))])>>,
                    seen |-> {}, afterMut |-> FALSE]
    /\ seen = [r \in Slots |-> {}]
    /\ afterMut = [r \in Slots |-> FALSE]
    /\ mutated = [u \in Users |-> \E row \in IssuedStore(n) : row.user_id = u]
    /\ returned = [k \in RawKeys |->
                      IF \E row \in IssuedStore(n) : row.key_hash = hashKey(k) THEN 1 ELSE 0]
    /\ completed = 1..n
    /\ overlap = [u \in Users |-> FALSE]
    /\ answered = <<>>

----------------------------------------------------------------------------
(* index.ts and lib/migrate.ts: startup *)

Instances == 1..MaxInstances

\* the variables the imported modules require when they are evaluated, in the
\* order of the imports: middleware/auth.ts, lib/db.ts, lib/redis.ts, routes/atlas-os/rpc.ts
RequiredAtImport == <<"CLERK_SECRET_KEY", "DATABASE_URL", "REDIS_URL", "ALCHEMY_API_KEY">>

IsRequiredMsg(name) == <<name, " is required">>

\* name of each entry of MIGRATIONS
MIGRATIONS == <<"001_api_keys">>

\* the table an entry's SQL creates (CREATE TABLE IF NOT EXISTS)
MigrationTable(name) == "api_keys"

MigrationPkMsg == <<"duplicate key value violates unique constraint \"schema_migrations_pkey\"">>

Off == [pc |-> "off", k |-> 0, error |-> <<>>]

Thrown(message) == [Off EXCEPT !.error = <<message>>]

Accepting == \E i \in Instances : inst[i].pc = "accepting"

\* the for loop of runMigrations moves to entry k, or the function returns
Iterate(i, k) ==
    IF k > Len(MIGRATIONS)
    THEN [inst EXCEPT ![i] = [Off EXCEPT !.pc = "setup"]]
    ELSE [inst EXCEPT ![i] = [Off EXCEPT !.pc = "select", !.k = k]]

\* the process starts: the imported modules are evaluated
BootStart(i) ==
    /\ inst[i].pc = "off" /\ starts < MaxStarts
    /\ starts' = starts + 1
    /\ LET unset == {n \in 1..Len(RequiredAtImport) : ~Truthy(env[RequiredAtImport[n]])}
       IN  inst' = [inst EXCEPT ![i] =
                IF unset = {} THEN [Off EXCEPT !.pc = "create"]
                ELSE Thrown(IsRequiredMsg(
                        RequiredAtImport[CHOOSE n \in unset : \A m \in unset : n <= m]))]
    /\ UNCHANGED <<tables, schema_migrations, executed, keysVars, swapVars, first, gwVars>>

\* CREATE TABLE IF NOT EXISTS schema_migrations
BootCreate(i) ==
    /\ inst[i].pc = "create"
    /\ tables' = tables \cup {"schema_migrations"}
    /\ inst' = Iterate(i, 1)
    /\ UNCHANGED <<starts, schema_migrations, executed, keysVars, swapVars, first, gwVars>>

\* SELECT name FROM schema_migrations WHERE name = $1, and the continue
BootSelect(i) ==
    /\ inst[i].pc = "select"
    /\ inst' = IF MIGRATIONS[inst[i].k] \in schema_migrations
               THEN Iterate(i, inst[i].k + 1)
               ELSE [inst EXCEPT ![i].pc = "apply"]
    /\ UNCHANGED <<starts, tables, schema_migrations, executed, keysVars, swapVars, first,
                   gwVars>>

\* db.query(migration.sql)
BootApply(i) ==
    /\ inst[i].pc = "apply"
    /\ executed' = [executed EXCEPT ![MIGRATIONS[inst[i].k]] = @ + 1]
    /\ tables' = tables \cup {MigrationTable(MIGRATIONS[inst[i].k])}
    /\ inst' = [inst EXCEPT ![i].pc = "record"]
    /\ UNCHANGED <<starts, schema_migrations, keysVars, swapVars, first, gwVars>>

\* INSERT INTO schema_migrations (name): name is the primary key
BootRecord(i) ==
    /\ inst[i].pc = "record"
    /\ IF MIGRATIONS[inst[i].k] \in schema_migrations
       THEN /\ inst' = [inst EXCEPT ![i] = Thrown(MigrationPkMsg)]
            /\ UNCHANGED schema_migrations
       ELSE /\ schema_migrations' = schema_migrations \cup {MIGRATIONS[inst[i].k]}
            /\ inst' = Iterate(i, inst[i].k + 1)
    /\ UNCHANGED <<starts, tables, executed, keysVars, swapVars, first, gwVars>>

\* setupComputeUsage, then the server is exported: requests are accepted
BootSetup(i) ==
    /\ inst[i].pc = "setup"
    /\ tables' = tables \cup {"compute_usage"}
    /\ inst' = [inst EXCEPT ![i].pc = "accepting"]
    /\ UNCHANGED <<starts, schema_migrations, executed, keysVars, swapVars, first, gwVars>>

\* the process dies during startup: a query rejects, or it is killed
BootCrash(i) ==
    /\ inst[i].pc \in {"create", "select", "apply", "record", "setup"}
    /\ inst' = [inst EXCEPT ![i] = Thrown(DbErrorMsg)]
    /\ UNCHANGED <<starts, tables, schema_migrations, executed, keysVars, swapVars, first,
                   gwVars>>

\* no instance has started yet, against an empty database
BootInit ==
    /\ inst = [i \in Instances |-> Off]
    /\ starts = 0
    /\ tables = {}
    /\ schema_migrations = {}
    /\ executed = [m \in {MIGRATIONS[k] : k \in 1..Len(MIGRATIONS)} |-> 0]

\* one instance has started against an empty database and accepts requests
BootDone ==
    /\ inst = [i \in Instances |-> IF i = 1 THEN [Off EXCEPT !.pc = "accepting"] ELSE Off]
    /\ starts = 1
    /\ tables = {"schema_migrations", "api_keys", "compute_usage"}
    /\ schema_migrations = {MIGRATIONS[k] : k \in 1..Len(MIGRATIONS)}
    /\ executed = [m \in {MIGRATIONS[k] : k \in 1..Len(MIGRATIONS)} |-> 1]

----------------------------------------------------------------------------
(* The credential routes, with the swap proxy at rest *)

Init ==
    /\ KeysInit
    /\ env = DefaultEnv
    /\ swap = IdleSwap
    /\ first = <<>>
    /\ GwInit
    /\ BootDone

KeysNext ==
    \/ \E r \in Slots, u \in Users : ListGet(r, u)
    \/ \E r \in Slots : ListQuery(r)
    \/ \E r \in Slots : ListSetex(r)
    \/ \E r \in Slots, u \in Users, name \in Names : IssueInsert(r, u, name)
    \/ \E r \in Slots : IssueDel(r)
    \/ \E r \in Slots, u \in Users, id \in 1..MaxReqs : RevokeDelete(r, u, id)
    \/ \E r \in Slots : RevokeDel(r)
    \/ \E u \in Users : CacheExpire(u)

Next == KeysNext

Spec == Init /\ [][Next]_vars

(* The swap proxy, for every configuration of the process *)

SwapInit ==
    /\ KeysInit
    /\ env \in Envs
    /\ swap = IdleSwap
    /\ first = <<>>
    /\ GwInit
    /\ BootDone

SwapNext ==
    \/ \E q \in Queries : PriceGet(q)
    \/ \E q \in Queries : QuoteGet(q)
    \/ \E status \in UpstreamStatuses : UpstreamReply(status)
    \/ UpstreamFails
    \/ SwapClose

SpecSwap == SwapInit /\ [][SwapNext]_vars

(* The swap proxy again, comparing each build with the first one *)

SwapRepeatNext ==
    \/ \E q \in RepeatQueries : PriceGet(q)
    \/ \E q \in RepeatQueries : QuoteGet(q)
    \/ RememberBuild
    \/ \E status \in UpstreamStatuses : UpstreamReply(status)
    \/ UpstreamFails
    \/ SwapClose

SpecSwapRepeat == SwapInit /\ [][SwapRepeatNext]_vars

(* The gateway routes, over the stores Issue requests leave behind *)

GatewayInit ==
    /\ \E n \in 0..MaxRandom : KeysAfterIssues(n)
    /\ env = DefaultEnv
    /\ swap = IdleSwap
    /\ first = <<>>
    /\ GwInit
    /\ BootDone

GatewayNext ==
    \/ \E e \in Endpoints, h \in HeaderInputs : GwReceive(e, h.xApiKey, h.authorization)
    \/ GwLookup
    \/ GwRpcList
    \/ \E in \in GwRpcInputs : GwRpcPost(in[1], in[2])
    \/ \E status \in RpcStatuses : \E data \in RpcData(status) : GwRpcReply(status, data)
    \/ \E body \in UsageBodies : GwUsagePost(body)
    \/ GwUsageGet(EmptyFn)
    \/ GwDexGet
    \/ \E q \in GwQueries : GwSwapGet(q)
    \/ GwChainsGet
    \/ \E status \in UpstreamStatuses : GwSwapReply(status)
    \/ GwFetchFails
    \/ GwClose

SpecGateway == GatewayInit /\ [][GatewayNext]_vars

\* what the service does by itself happens in the end: the lookup is answered,
\* the handler runs, the upstream call settles, the response is sent. That a
\* further request arrives is not assumed.
GatewayFairness ==
    /\ WF_<<gw.pc>>(GwLookup)
    /\ WF_<<gw.pc>>(GwRpcList)
    /\ WF_<<gw.pc>>(\E in \in GwRpcInputs : GwRpcPost(in[1], in[2]))
    /\ WF_<<gw.pc>>(\E body \in UsageBodies : GwUsagePost(body))
    /\ WF_<<gw.pc>>(GwUsageGet(EmptyFn))
    /\ WF_<<gw.pc>>(GwDexGet)
    /\ WF_<<gw.pc>>(\E q \in GwQueries : GwSwapGet(q))
    /\ WF_<<gw.pc>>(GwChainsGet)
    /\ WF_<<gw.pc>>(GwFetchFails \/ \E status \in UpstreamStatuses : GwSwapReply(status))
    /\ WF_<<gw.pc>>(GwFetchFails
                      \/ \E status \in RpcStatuses : \E data \in RpcData(status) :
                             GwRpcReply(status, data))
    /\ WF_<<gw.pc>>(GwClose)

SpecGatewayFair == SpecGateway /\ GatewayFairness

(* The RPC pass-through, for every alias *)

RpcNext ==
    \/ \E e \in {"rpc.list", "rpc.post"}, h \in RpcHeaders :
            GwReceive(e, h.xApiKey, h.authorization)
    \/ GwLookup
    \/ GwRpcList
    \/ \E in \in RpcInputs : GwRpcPost(in[1], in[2])
    \/ \E status \in RpcStatuses : \E data \in RpcData(status) : GwRpcReply(status, data)
    \/ GwFetchFails
    \/ GwClose

SpecRpc == GatewayInit /\ [][RpcNext]_vars

(* Startup of the service, and the swap proxy once an instance accepts requests *)

\* process.env at startup: complete, or with some of the credentials unset
BootEnvs ==
    {[DefaultEnv EXCEPT ![n] = <<>>] : n \in DOMAIN DefaultEnv}
    \cup {DefaultEnv,
          [DefaultEnv EXCEPT !.ZERO_EX_API_KEY = <<<<>>>>],
          [DefaultEnv EXCEPT !.ZERO_EX_API_KEY = <<>>, !.ALCHEMY_API_KEY = <<>>]}

\* a complete price request, a complete quote request, an empty one
BootQueries ==
    {EmptyFn,
     [k \in {"chainId", "buyToken", "sellToken", "sellAmount"} |-> <<"1">>],
     [k \in RequiredKeys |-> <<"1">>]}

BootInitAll ==
    /\ KeysInit
    /\ env \in BootEnvs
    /\ swap = IdleSwap
    /\ first = <<>>
    /\ GwInit
    /\ BootInit

BootNext ==
    \/ \E i \in Instances : BootStart(i)
    \/ \E i \in Instances : BootCreate(i)
    \/ \E i \in Instances : BootSelect(i)
    \/ \E i \in Instances : BootApply(i)
    \/ \E i \in Instances : BootRecord(i)
    \/ \E i \in Instances : BootSetup(i)
    \/ \E i \in Instances : BootCrash(i)
    \/ \E q \in BootQueries : Accepting /\ PriceGet(q)
    \/ \E q \in BootQueries : Accepting /\ QuoteGet(q)
    \/ \E status \in UpstreamStatuses : UpstreamReply(status)
    \/ UpstreamFails
    \/ SwapClose

SpecBoot == BootInitAll /\ [][BootNext]_vars

(* Usage events and the credentials they refer to *)

UsageInit ==
    /\ \E n \in 1..MaxRandom : KeysAfterIssues(n)
    /\ env = DefaultEnv
    /\ swap = IdleSwap
    /\ first = <<>>
    /\ GwInit
    /\ BootDone

UsageNext ==
    \/ \E e \in {"usage.post", "usage.get"}, h \in UsageHeaders :
            GwReceive(e, h.xApiKey, h.authorization)
    \/ GwLookup
    \/ \E body \in UsageBodies : GwUsagePost(body)
    \/ GwUsageGet(EmptyFn)
    \/ GwClose
    \/ \E r \in Slots, u \in Users, id \in 1..MaxReqs : RevokeDelete(r, u, id)
    \/ \E r \in Slots : RevokeDel(r)

SpecUsage == UsageInit /\ [][UsageNext]_vars

(* What each principal is shown: the credential list and the usage queries *)

ViewBodies ==
    {<<[action |-> PerpTrade]>>,
     <<[action |-> PerpTrade, status |-> <<"error">>, error_msg |-> <<"boom">>]>>}

\* both principals hold a credential
ViewsInit ==
    /\ KeysAfterIssues(MaxRandom)
    /\ env = DefaultEnv
    /\ swap = IdleSwap
    /\ first = <<>>
    /\ GwInit
    /\ BootDone

ViewsNext ==
    \/ \E e \in {"usage.post", "usage.get"}, h \in UsageHeaders :
            GwReceive(e, h.xApiKey, h.authorization)
    \/ GwLookup
    \/ \E body \in ViewBodies : GwUsagePost(body)
    \/ \E q \in UsageQueries : GwUsageGet(q)
    \/ GwClose
    \/ \E r \in Slots, u \in Users : ListGet(r, u)
    \/ \E r \in Slots : ListQuery(r)
    \/ \E r \in Slots : ListSetex(r)
    \/ \E r \in Slots, u \in Users, q \in UsageQueries : KeysUsageGet(r, u, q)
    \/ \E r \in Slots : KeysUsageQuery(r)

SpecViews == ViewsInit /\ [][ViewsNext]_vars

----------------------------------------------------------------------------
(* Claims about the credential routes *)

IsList200(l) == l.op = "list" /\ l.resp # <<>> /\ l.resp[1].status = 200

KeyIds(keys) == {keys[i].id : i \in 1..Len(keys)}

\* C1: a List of a principal that starts after an Issue or a successful Revoke of
\* that principal has completed returns exactly the credentials the store held
\* for the principal at some moment of that List (never an older set).
C1_ListNeverStale ==
    (IsList200(last) /\ last.afterMut) => KeyIds(last.resp[1].body.keys) \in last.seen

Foreign(id, u) == \E row \in api_keys : row.id = id /\ row.user_id # u

NotOwned(id, u) == ~ \E row \in api_keys : row.id = id /\ row.user_id = u

\* C2: a Revoke whose id is not a credential of the caller (owned by another
\* principal, or not there at all) changes neither the store nor any cache entry
\* and is answered 404 "not found" in both cases alike (or 500 if the store itself
\* fails), never with success; no such Revoke reaches the cache invalidation.
C2_ForeignRevokeIsNotFound ==
    [][\A r \in Slots :
         /\ (reqs[r].op = "none" /\ reqs'[r].op = "done"
                /\ last'.slot = r /\ last'.op = "revoke"
                /\ NotOwned(last'.id, last'.user))
              => /\ api_keys' = api_keys
                 /\ cache' = cache
                 /\ last'.resp \in {<<NotFoundResp>>, <<errorHandler(DbErrorMsg)>>}
         /\ (reqs[r].op = "none" /\ reqs'[r].op = "revoke")
              => /\ ~ NotOwned(reqs'[r].id, reqs'[r].user)
                 /\ api_keys' = {row \in api_keys : row.id # reqs'[r].id}
      ]_vars

\* a Revoke of another principal's existing credential has been answered 404
C2_Witness ==
    /\ last.op = "revoke"
    /\ last.resp = <<NotFoundResp>>
    /\ Foreign(last.id, last.user)

\* C3: the raw token of every credential in the store whose Issue has been
\* answered was carried by exactly one response.
C3_RawKeyReturnedExactlyOnce ==
    \A row \in api_keys : \A k \in RawKeys :
        (row.id \in completed /\ hashKey(k) = row.key_hash) => returned[k] = 1

Secrets == RawKeys \cup {hashKey(k) : k \in RawKeys}

OnlyListColumns(row) ==
    /\ DOMAIN row = ListColumns
    /\ TextsOfRow(row) \cap Secrets = {}

\* C4: every row of a List response (from the cache or from the store) and of a
\* list-cache entry has exactly the columns id, user_id, name, prefix, created_at,
\* and none of its values is a raw token or a secret hash.
C4_ListHidesSecrets ==
    /\ \A u \in Users :
          cache[cacheKey(u)] # <<>> =>
              \A i \in 1..Len(cache[cacheKey(u)][1]) :
                  OnlyListColumns(cache[cacheKey(u)][1][i])
    /\ IsList200(last) =>
          \A i \in 1..Len(last.resp[1].body.keys) :
              OnlyListColumns(last.resp[1].body.keys[i])

\* a List served from the cache returned at least one credential
C4_Witness ==
    /\ IsList200(last)
    /\ last.resp[1].body.cached
    /\ Len(last.resp[1].body.keys) > 0

\* C5: no two credentials in the store have the same secret hash.
C5_SecretHashUnique ==
    \A a, b \in api_keys : a.key_hash = b.key_hash => a = b

----------------------------------------------------------------------------
(* Claims about the swap proxy *)

\* the comma-separated entries of a value
RECURSIVE Split(_)
Split(text) ==
    IF \E i \in 1..Len(text) : text[i] = ","
    THEN LET i == CHOOSE n \in 1..Len(text) :
                    text[n] = "," /\ \A m \in 1..(n - 1) : text[m] # ","
         IN  <<SubSeq(text, 1, i - 1)>> \o Split(SubSeq(text, i + 1, Len(text)))
    ELSE <<text>>

EntrySet(text) == {Split(text)[i] : i \in 1..Len(Split(text))}

LastEntry(text) == Split(text)[Len(Split(text))]

\* an upstream URL has been built and is being fetched
Built == swap.pc = "fetch"

Sent == swap.query[1]
Out == swap.url[1].searchParams

CallerRecipient == QueryOf(Sent, "swapFeeRecipient")
CallerFeeBps == QueryOf(Sent, "swapFeeBps")
OutRecipient == SearchGet(Out, "swapFeeRecipient")
OutFeeBps == SearchGet(Out, "swapFeeBps")

\* the platform fee recipient is configured
Configured == Truthy(env.ZERO_EX_FEE_RECIPIENT)

PlatformRecipient == env.ZERO_EX_FEE_RECIPIENT[1]

CarriesPlatformFee ==
    /\ env.ZERO_EX_FEE_RECIPIENT # <<>>
    /\ OutRecipient # <<>> /\ PlatformRecipient \in EntrySet(OutRecipient[1])
    /\ OutFeeBps # <<>> /\ FeeBps(env) \in EntrySet(OutFeeBps[1])

\* C6 as claimed: every upstream URL built carries the platform fee.
C6_AlwaysCarriesPlatformFee == Built => CarriesPlatformFee

\* C6, amended: when ZERO_EX_FEE_RECIPIENT is configured (set and not empty),
\* every upstream URL built has the platform recipient among the entries of
\* swapFeeRecipient and the platform bps among the entries of swapFeeBps.
C6_CarriesPlatformFeeWhenConfigured == (Built /\ Configured) => CarriesPlatformFee

\* a URL built for a caller who named a fee recipient, with the fee configured
C6_Witness == Built /\ Configured /\ Truthy(CallerRecipient)

\* C7: with the platform fee configured, when the caller supplies a fee recipient
\* and a fee bps, the output swapFeeRecipient is the caller's value, a comma and
\* the platform recipient, and the output swapFeeBps is the caller's value, a
\* comma and the platform bps.
C7_CallerFirstPlatformAppended ==
    (Built /\ Configured /\ Truthy(CallerRecipient) /\ CallerFeeBps # <<>>) =>
        /\ OutRecipient = <<CallerRecipient[1] \o Comma \o PlatformRecipient>>
        /\ OutFeeBps = <<CallerFeeBps[1] \o Comma \o FeeBps(env)>>

\* a URL built for a caller who sent swapFeeRecipient and swapFeeBps
C7_Witness ==
    Built /\ Configured /\ Truthy(CallerRecipient) /\ Truthy(CallerFeeBps)

\* C8: with the platform fee configured, when the caller supplies no fee recipient
\* (none, or an empty one), the output swapFeeRecipient is the platform recipient
\* and the output swapFeeBps is the platform bps, one entry each, whatever else
\* the caller sent.
C8_PlatformFeeAlone ==
    (Built /\ Configured /\ ~Truthy(CallerRecipient)) =>
        /\ OutRecipient = <<PlatformRecipient>>
        /\ OutFeeBps = <<FeeBps(env)>>
        /\ Len(Split(OutRecipient[1])) = 1
        /\ Len(Split(OutFeeBps[1])) = 1

\* a URL built for a caller who sent a swapFeeBps of their own but no recipient
C8_Witness ==
    Built /\ Configured /\ CallerRecipient = <<>> /\ Truthy(CallerFeeBps)

IndexAligned ==
    /\ OutRecipient # <<>> /\ OutFeeBps # <<>>
    /\ Len(Split(OutRecipient[1])) = Len(Split(OutFeeBps[1]))
    /\ LastEntry(OutRecipient[1]) = PlatformRecipient
    /\ LastEntry(OutFeeBps[1]) = FeeBps(env)

\* C9: for every caller input that supplies a fee recipient (the platform fee
\* being configured), the output recipient list and the output bps list have the
\* same number of comma-separated entries, and the platform's recipient and the
\* platform's bps are both the last entry.
C9_IndexAligned ==
    (Built /\ Configured /\ Truthy(CallerRecipient)) => IndexAligned

\* the caller's recipient list and bps list have the same number of entries; a
\* caller who sends no swapFeeBps counts as sending one entry
CallerAligned ==
    Len(Split(CallerRecipient[1])) = Len(Split(Coalesce(CallerFeeBps, FeeBps(env))))

\* the lists stay aligned for the callers who send aligned lists
AlignedWhenCallerIs ==
    (Built /\ Configured /\ Truthy(CallerRecipient) /\ CallerAligned) => IndexAligned

FeeKeys == {"swapFeeRecipient", "swapFeeBps"}

PlatformValue(k) == IF k = "swapFeeRecipient" THEN PlatformRecipient ELSE FeeBps(env)

\* C10 as claimed: every key of the caller's query is in the upstream URL, with
\* the caller's value as sent or, for a fee field, with the platform entry
\* appended to it.
C10_NoParamDropped ==
    Built =>
        \A k \in DOMAIN Sent :
            /\ SearchHas(Out, k)
            /\ \/ SearchGet(Out, k) = <<Sent[k]>>
               \/ /\ k \in FeeKeys /\ env.ZERO_EX_FEE_RECIPIENT # <<>>
                  /\ SearchGet(Out, k) = <<Sent[k] \o Comma \o PlatformValue(k)>>

\* what the proxy sends for a parameter of SWAP_PARAMS the caller sent
Forwarded(k) ==
    IF k \notin FeeKeys \/ ~Configured THEN Sent[k]
    ELSE IF Truthy(CallerRecipient) THEN Sent[k] \o Comma \o PlatformValue(k)
    ELSE PlatformValue(k)

\* C10, amended: every parameter of SWAP_PARAMS in the caller's query is in the
\* upstream URL (other query keys are not forwarded); its value is the caller's,
\* except for the two fee fields when the platform fee is configured: with a
\* non-empty caller swapFeeRecipient they are the caller's value with the
\* platform entry appended, without one they are the platform's values alone
\* (a swapFeeBps the caller sent is then replaced).
C10_KnownParamsForwarded ==
    Built =>
        /\ \A k \in DOMAIN Sent \cap SwapParamSet : SearchGet(Out, k) = <<Forwarded(k)>>
        /\ \A k \in DOMAIN Sent \ SwapParamSet : ~SearchHas(Out, k)

\* a URL built for a caller who sent an optional parameter, an empty surplus
\* recipient and a fee recipient
C10_Witness ==
    /\ Built /\ Configured /\ Truthy(CallerRecipient)
    /\ "gasPrice" \in DOMAIN Sent
    /\ QueryOf(Sent, "tradeSurplusRecipient") = <<<<>>>>

\* a later request is being served with the route and query of the first build
SameAsFirst ==
    /\ Built /\ first # <<>> /\ first[1].past
    /\ first[1].route = swap.route
    /\ first[1].query = Sent

\* C11: two invocations of the builder with identical caller parameters and
\* identical platform fee configuration produce identical upstream URLs: a URL
\* built later for the route and query of the first build equals the first.
C11_SameInputsSameUrl == SameAsFirst => swap.url[1] = first[1].url

\* the first request is repeated with the platform fee configured and injected
C11_Witness == SameAsFirst /\ Configured /\ CallerRecipient = <<>>

----------------------------------------------------------------------------
(* Claims about the gateway *)

\* the token a request carries starts with the fixed prefix
HasFixedPrefix(header) ==
    /\ header # <<>>
    /\ Len(header[1]) >= 4
    /\ <<header[1][1], header[1][2], header[1][3], header[1][4]>> = <<"a", "t", "l", "_">>

\* C12: a request that carries no token, or a token that does not start with the
\* fixed prefix, is answered 401 without a credential-store lookup (and without
\* reaching a route).
C12_MalformedRejectedWithoutLookup ==
    (gw.pc # "idle" /\ ~HasFixedPrefix(gw.header)) =>
        /\ gw.pc = "done"
        /\ gw.resp[1].status = 401
        /\ gw.lookups = 0
        /\ ~gw.verified /\ gw.calls = 0

\* a request whose token is "xyz" has been answered
C12_Witness == gw.pc = "done" /\ gw.header = <<Xyz>> /\ gw.resp = <<MissingKeyResp>>

\* C13: authentication failures are generic: a missing token, a malformed token
\* and a well-formed token unknown to the store are all rejected with one and the
\* same response.
C13_AuthFailuresGeneric == Cardinality(denials) <= 1

\* C14: credential verification precedes route dispatch on every gateway route:
\* a request is in a route handler only after its verification succeeded, an
\* upstream call is made or a usage event appended only by such a request, and
\* every usage event carries the principal and credential of a stored key.
C14_VerifiedBeforeDispatch ==
    /\ [](gw.pc \in {"route", "fetch"} => (gw.verified /\ gw.lookups = 1))
    /\ [](gw.calls > 0 => gw.verified)
    /\ [](\A ev \in compute_usage :
            \E row \in api_keys : ev.user_id = <<row.user_id>> /\ ev.api_key_id = <<row.id>>)
    /\ [][(gw'.calls > gw.calls \/ compute_usage' # compute_usage)
            => (gw.verified /\ gw.pc = "route")]_vars

\* an upstream call is in flight after a usage event has been recorded
C14_Witness == gw.pc = "fetch" /\ gw.calls = 1 /\ compute_usage # {}

\* the RPC handler has looked at the path parameter of the request
RpcHandled == gw.endpoint = "rpc.post" /\ gw.alias # <<>>

\* C17: for every alias that, lower-cased, is not a key of the alias table,
\* POST /rpc/{alias} answers 400 with an error naming the alias and pointing to
\* the list endpoint, and makes no upstream call.
C17_UnknownAliasRejected ==
    (RpcHandled /\ toLowerCase(gw.alias[1]) \notin ChainKeys) =>
        /\ gw.pc = "done"
        /\ gw.calls = 0
        /\ gw.resp = <<UnknownChainResp(toLowerCase(gw.alias[1]))>>

SameLetter(c, d) ==
    c = d \/ \E i \in 1..Len(UpperChars) : {c, d} = {UpperChars[i], LowerChars[i]}

\* two spellings that differ only in letter case
SameButCase(a, b) == Len(a) = Len(b) /\ \A i \in 1..Len(a) : SameLetter(a[i], b[i])

\* C18: alias resolution is case-insensitive: a request whose path parameter
\* differs from an alias of the table only in letter case resolves to the
\* definition of that alias and is sent to the URL of that alias.
C18_CaseInsensitiveResolution ==
    \A i \in 1..Len(CHAINS) :
        (RpcHandled /\ SameButCase(gw.alias[1], CHAINS[i][1])) =>
            /\ gw.pc = "fetch"
            /\ gw.chain = <<[slug |-> <<CHAINS[i][2]>>, template |-> CHAINS[i][3]]>>
            /\ gw.sent[1].url = buildAlchemyUrl([slug |-> <<CHAINS[i][2]>>,
                                                 template |-> CHAINS[i][3]])

\* "STARKNET" is being sent to the starknet URL
C18_Witness ==
    /\ RpcHandled /\ gw.pc = "fetch"
    /\ gw.alias = <<<<"S", "T", "A", "R", "K", "N", "E", "T">>>>
    /\ gw.chain = <<[slug |-> <<"starknet-mainnet">>, template |-> <<"starknet">>]>>

\* C19: for an RPC request with a known alias the body sent upstream is the body
\* received, and the status code and JSON body answered are the status code and
\* JSON body of the upstream, for every upstream status code.
C19_RpcRelayedUnchanged ==
    /\ (RpcHandled /\ gw.pc = "fetch") =>
            (gw.sent[1].body = gw.body[1] /\ gw.sent[1].method = "POST")
    /\ (gw.endpoint = "rpc.post" /\ gw.pc = "done" /\ gw.got # <<>> /\ gw.got[1].data # <<>>) =>
            gw.resp = <<Json(gw.got[1].status, gw.got[1].data[1])>>

----------------------------------------------------------------------------
(* Claims about sequential and concurrent use of the credential routes *)

RevokeOk(id) == Json(200, [success |-> TRUE, id |-> id])

\* the raw tokens whose hash the store holds for credential id
RawOf(id) == {k \in RawKeys : \E row \in api_keys : row.id = id /\ row.key_hash = hashKey(k)}

\* two answered Revoke requests of one user for one id
SameRevoke(i, j) ==
    /\ i # j
    /\ answered[i].id = answered[j].id
    /\ answered[i].user = answered[j].user

\* C15: when the Issue, List and Revoke calls of a principal have not overlapped,
\* each List returns exactly the credentials the store holds for the principal
\* (issued and not revoked), each with the first 12 characters of its raw token as
\* its prefix, and a Revoke of an id already revoked reports not found (or the
\* store's failure).
C15_SequentialListExact ==
    /\ (IsList200(last) /\ ~overlap[last.user]) =>
          LET keys == last.resp[1].body.keys
          IN  /\ KeyIds(keys) \in last.seen
              /\ \A i \in 1..Len(keys) : \A k \in RawOf(keys[i].id) :
                    keys[i].prefix = SubSeq(k, 1, 12)
    /\ \A i, j \in 1..Len(answered) :
          (/\ SameRevoke(i, j) /\ i < j
           /\ ~overlap[answered[i].user]
           /\ answered[i].resp = RevokeOk(answered[i].id))
          => answered[j].resp \in {NotFoundResp, errorHandler(DbErrorMsg)}

\* the Revoke answered i-th has removed the credential from the store
Removed(i) == answered[i].resp \in {RevokeOk(answered[i].id), errorHandler(RedisErrorMsg)}

\* C16: of the Revoke calls of one principal for one credential id, concurrent or
\* not, at most one reports success; once one of them has removed the credential
\* (it reports success, or 500 when its cache invalidation fails), the credential
\* is absent from the store and every other one reports not found (or 500 when
\* its own store query fails).
C16_ConcurrentRevokeBenign ==
    \A i \in 1..Len(answered) :
        Removed(i) =>
            /\ answered[i].id \notin {row.id : row \in api_keys}
            /\ \A j \in 1..Len(answered) :
                  SameRevoke(i, j) =>
                      answered[j].resp \in {NotFoundResp, errorHandler(DbErrorMsg)}

\* a Revoke that started second was answered not found while the first one, which
\* went on to report success, was still being handled
C16_Witness ==
    \E i, j \in 1..Len(answered) :
        /\ SameRevoke(i, j) /\ i < j
        /\ answered[i].slot > answered[j].slot
        /\ answered[i].resp = NotFoundResp
        /\ answered[j].resp = RevokeOk(answered[j].id)
        /\ answered[j].id \notin {row.id : row \in api_keys}

----------------------------------------------------------------------------
(* Claims about the validation of swap requests *)

\* the required fields of the swap request being served, in the claimed order
RequiredOrder ==
    IF swap.route = "price" THEN <<"chainId", "buyToken", "sellToken", "sellAmount">>
    ELSE <<"chainId", "buyToken", "sellToken", "sellAmount", "taker">>

\* the handler has validated a request and has not yet heard from the upstream
Validated == swap.query # <<>>

\* a field is missing when it is absent from the query or sent empty
Missing(k) == k \notin DOMAIN Sent \/ Sent[k] = <<>>

SomeMissing == \E i \in 1..Len(RequiredOrder) : Missing(RequiredOrder[i])

\* the first missing field of the order
FirstMissing ==
    RequiredOrder[CHOOSE i \in 1..Len(RequiredOrder) :
        Missing(RequiredOrder[i]) /\ \A j \in 1..(i - 1) : ~Missing(RequiredOrder[j])]

\* C20 as claimed: a request missing a required field is rejected with an input
\* error naming the first missing field and no outbound call is made; a request
\* with all required fields present leads to exactly one outbound call.
C20_ValidatedBeforeOutboundCall ==
    Validated =>
        IF SomeMissing
        THEN /\ swap.pc = "done" /\ swap.calls = 0
             /\ swap.resp = <<RequiredResp(FirstMissing)>>
        ELSE swap.pc = "fetch" /\ swap.calls = 1

\* C20, amended: a price request missing any of chainId, buyToken, sellToken,
\* sellAmount, and a quote request missing any of those or taker, a field sent
\* empty counting as missing, is answered 400 with an error naming the first
\* missing field in that order and no outbound call is made; a request with all
\* required fields leads to exactly one outbound call when ZERO_EX_API_KEY is
\* configured, and to a 503 without any outbound call when it is not.
C20_ValidatedBeforeCallWhenKeyed ==
    /\ swap.calls \in {0, 1}
    /\ Validated =>
        IF SomeMissing
        THEN /\ swap.pc = "done" /\ swap.calls = 0
             /\ swap.resp = <<RequiredResp(FirstMissing)>>
        ELSE IF Truthy(env.ZERO_EX_API_KEY)
        THEN swap.pc = "fetch" /\ swap.calls = 1
        ELSE /\ swap.pc = "done" /\ swap.calls = 0
             /\ swap.resp = <<UpstreamError(ApiKeyMissingMsg)>>

\* a quote request without sellToken and taker has been answered
C20_Witness ==
    /\ Validated /\ swap.route = "quote" /\ swap.pc = "done"
    /\ DOMAIN Sent = {"chainId", "buyToken", "sellAmount"}
    /\ swap.resp = <<RequiredResp("sellToken")>>

----------------------------------------------------------------------------
(* Claims about startup *)

\* an accepted swap request has been answered that the credential is not configured
FailedForWantOfCredential == swap.pc = "done" /\ swap.resp = <<UpstreamError(ApiKeyMissingMsg)>>

\* C21: when the swap provider's credential (ZERO_EX_API_KEY) is not configured no
\* instance of the service reaches the state of accepting requests, and no swap
\* request is accepted and then answered that the credential is missing.
C21_CredentialCheckedAtStartup ==
    /\ ~Truthy(env.ZERO_EX_API_KEY) => ~Accepting
    /\ ~FailedForWantOfCredential

\* C30: the SQL of a migration is executed at most once, whatever the startups,
\* and its name is in schema_migrations only once that SQL has run.
C30_MigrationRunsOnce ==
    \A k \in 1..Len(MIGRATIONS) :
        /\ executed[MIGRATIONS[k]] <= 1
        /\ MIGRATIONS[k] \in schema_migrations => executed[MIGRATIONS[k]] >= 1

----------------------------------------------------------------------------
(* Claims about the trade surplus recipient *)

CallerSurplus == QueryOf(Sent, "tradeSurplusRecipient")
OutSurplus == SearchGet(Out, "tradeSurplusRecipient")

\* C27: in every upstream URL built, tradeSurplusRecipient is the caller's value,
\* as sent, whenever the caller sent the field (the platform address is never
\* appended to it or put in its place); when the caller did not send it, it is the
\* platform's ZERO_EX_SURPLUS_RECIPIENT if that is configured (set and not empty)
\* and is absent otherwise.
C27_SurplusRecipientOnlyOne ==
    Built =>
        IF CallerSurplus # <<>> THEN OutSurplus = CallerSurplus
        ELSE IF Truthy(env.ZERO_EX_SURPLUS_RECIPIENT)
        THEN OutSurplus = env.ZERO_EX_SURPLUS_RECIPIENT
        ELSE OutSurplus = <<>>

\* a URL built for a caller who named a surplus recipient, with one configured
C27_Witness ==
    /\ Built /\ Truthy(CallerSurplus) /\ Truthy(env.ZERO_EX_SURPLUS_RECIPIENT)
    /\ OutSurplus # env.ZERO_EX_SURPLUS_RECIPIENT

----------------------------------------------------------------------------
(* Claims about usage events *)

\* the handler of POST /atlas-os/compute/usage answers in this step
RecordAnswered == gw.pc = "route" /\ gw.endpoint = "usage.post" /\ gw'.pc = "done"

\* the rows this step adds to the table
Appended == {row \in compute_usage' : \A old \in compute_usage : old.id # row.id}

WellFormed(row) ==
    /\ row.action # <<>>
    /\ row.status \in {<<"success">>, <<"error">>, <<"pending">>}
    /\ row.status = <<"error">> => (row.error_msg # <<>> /\ row.error_msg[1] # <<>>)

\* the request body is no JSON object, has no non-empty string as its action,
\* names a status outside the three, or has status error without an error message
ViolatesRecordRules(body) ==
    \/ body = <<>>
    \/ "action" \notin DOMAIN body[1]
    \/ body[1].action = <<>> \/ body[1].action[1] = "#"
    \/ /\ "status" \in DOMAIN body[1]
       /\ body[1].status \notin {<<"success">>, <<"error">>, <<"pending">>}
    \/ /\ "status" \in DOMAIN body[1] /\ body[1].status = <<"error">>
       /\ \/ "error_msg" \notin DOMAIN body[1]
          \/ body[1].error_msg \in {<<>>, <<"#", "null">>}

\* C22: every usage event in the store has a non-empty action, a status among
\* success, error and pending, and an error message when its status is error; a
\* record request that violates this is answered with an error (400 from the
\* handler, 500 when it is the table's CHECK that refuses the row) and appends nothing.
C22_UsageEventsWellFormed ==
    /\ [](\A row \in compute_usage : WellFormed(row))
    /\ [][(RecordAnswered /\ ViolatesRecordRules(gw'.body)) =>
            /\ Appended = {}
            /\ gw'.resp[1].status \in {400, 500}]_vars

\* a request with status error and no error message has been refused
C22_Witness ==
    /\ gw.pc = "done" /\ gw.endpoint = "usage.post"
    /\ gw.body = <<[action |-> PerpTrade, status |-> <<"error">>]>>
    /\ gw.resp = <<ErrorMsgRequiredResp>>
    /\ compute_usage # {}

\* the credential the request was authenticated with
Authenticated(key) ==
    /\ key.key_hash = hashKey(gw.header[1])
    /\ gw.userId = <<key.user_id>>
    /\ gw.apiKeyId = <<key.id>>

\* C23: the row a recording request appends carries the principal id and the
\* credential id of the credential whose key authenticated the request, whatever
\* the body says; afterwards a row's credential, while it has one, belongs to
\* the row's principal.
C23_IdsFromVerifiedCredential ==
    /\ [][\A row \in Appended :
            /\ gw.verified
            /\ \E key \in api_keys : Authenticated(key)
            /\ row.user_id = gw.userId /\ row.api_key_id = gw.apiKeyId]_vars
    /\ [](\A row \in compute_usage :
            row.api_key_id # <<>> =>
                \E key \in api_keys : key.id = row.api_key_id[1] /\ <<key.user_id>> = row.user_id)

\* a request of u1 whose body names u2 has been recorded for u1
C23_Witness ==
    /\ gw.pc = "done" /\ gw.endpoint = "usage.post" /\ gw.resp[1].status = 201
    /\ gw.userId = <<"u1">>
    /\ "user_id" \in DOMAIN gw.body[1] /\ gw.body[1].user_id = <<"u2">>
    /\ \E row \in compute_usage : row.id = gw.resp[1].body.data.id /\ row.user_id = <<"u1">>

CredentialIds(keys) == {key.id : key \in keys}

\* the step deletes the credential a usage event refers to
Unlinked(old) ==
    /\ old.api_key_id # <<>>
    /\ old.api_key_id[1] \in CredentialIds(api_keys) \ CredentialIds(api_keys')

\* C24: no step removes a usage event or changes a field of one, except that the
\* step that deletes a credential sets the credential id of the events that
\* referred to it to null; no event refers to a credential that is gone.
C24_UsageAppendOnly ==
    /\ [][\A old \in compute_usage :
            \/ old \in compute_usage' /\ ~Unlinked(old)
            \/ Unlinked(old) /\ [old EXCEPT !.api_key_id = <<>>] \in compute_usage']_vars
    /\ [](\A row \in compute_usage :
            row.api_key_id = <<>> \/ row.api_key_id[1] \in CredentialIds(api_keys))
    /\ [][Cardinality(compute_usage') >= Cardinality(compute_usage)]_vars

\* the credential of a recorded usage event has been revoked: the event is there
\* without a credential id
C24_Witness ==
    /\ \E row \in compute_usage : row.api_key_id = <<>>
    /\ \E i \in 1..Len(answered) : answered[i].resp = RevokeOk(answered[i].id)

\* the raw keys of the credentials whose Revoke has been answered with success
RevokedKeys ==
    {k \in RawKeys : \E i \in 1..Len(answered) :
        /\ answered[i].resp = RevokeOk(answered[i].id)
        /\ answered[i].id \in 1..nextId
        /\ IssuedRow(answered[i].id).key_hash = hashKey(k)}

\* apiKeyAuth's lookup is answered in this step
LookedUp == gw.pc = "lookup" /\ gw'.pc # "lookup"

\* C29: a lookup attaches a principal only if a credential with the digest of the
\* presented key is in the store at that moment, and it is that credential's
\* principal; a key whose digest is not in the store is answered 401; so once the
\* Revoke of a credential has been answered with success, every lookup of its raw
\* key is refused (401, or 500 when the store fails).
C29_RevokedKeyRejected ==
    [][LookedUp =>
        /\ gw'.verified => \E key \in api_keys :
                /\ key.key_hash = hashKey(gw.header[1])
                /\ gw'.userId = <<key.user_id>> /\ gw'.apiKeyId = <<key.id>>
        /\ (~gw'.verified /\ \E key \in api_keys : key.key_hash = hashKey(gw.header[1]))
                => gw'.resp = <<errorHandler(DbErrorMsg)>>
        /\ gw.header[1] \in RevokedKeys =>
                /\ ~gw'.verified
                /\ gw'.resp[1] \in {InvalidKeyResp, errorHandler(DbErrorMsg)}]_vars

\* a request carrying the key of a revoked credential has been answered 401
C29_Witness ==
    /\ gw.pc = "done" /\ gw.header # <<>> /\ gw.header[1] \in RevokedKeys
    /\ gw.resp = <<InvalidKeyResp>>

----------------------------------------------------------------------------
(* Claims about the usage queries *)

\* the limits above 200 among the requested ones
LimitsAbove200 == {<<"2", "0", "1">>, <<"5", "0", "0">>, <<"5", "0", "1">>}

\* response answers the usage query q within the maximum of 200: it carries a
\* limit of at most 200 and no more rows than that, and a request for more than
\* 200 is served with a limit of 200 (or fails with the store)
ClampedTo200(q, response) ==
    /\ response.status = 200 =>
          /\ response.body.meta.limit <= 200
          /\ Len(response.body.data) <= 200
    /\ ("limit" \in DOMAIN q /\ q.limit \in LimitsAbove200) =>
          \/ response.status = 200 /\ response.body.meta.limit = 200
          \/ response = errorHandler(DbErrorMsg)

GatewayQueryClamped ==
    (gw.pc = "done" /\ gw.endpoint = "usage.get" /\ gw.verified) =>
        ClampedTo200(gw.body[1], gw.resp[1])

KeysQueryClamped ==
    \A r \in Slots :
        (reqs[r].op = "usage" /\ reqs'[r].op = "done") =>
            ClampedTo200(reqs[r].record[1], last'.resp[1])

\* C26: on both usage query endpoints a request with a limit above 200 is served
\* with an effective limit of exactly 200, and no usage query answers with a
\* limit, or a number of rows, above 200.
C26_LimitClampedTo200 == []GatewayQueryClamped /\ [][KeysQueryClamped]_vars

\* the same for the gateway's endpoint alone
GatewayLimitClamped == []GatewayQueryClamped

----------------------------------------------------------------------------
(* Claims about the isolation of principals *)

\* the principal of the usage event with this id
OwnerOfEvent(id) == (CHOOSE row \in compute_usage : row.id = id).user_id

OnlyEventsOf(u, response) ==
    response.status = 200 =>
        \A i \in 1..Len(response.body.data) : OwnerOfEvent(response.body.data[i].id) = <<u>>

OnlyKeysOf(u, keys) == \A i \in 1..Len(keys) : keys[i].user_id = u

\* C28: the cache entry under a principal's key holds only credentials of that
\* principal; a List answers a principal with credentials of that principal only;
\* both usage queries answer a principal with usage events of that principal only.
C28_PrincipalsIsolated ==
    /\ \A u \in Users :
          cache[cacheKey(u)] # <<>> => OnlyKeysOf(u, JsonParse(cache[cacheKey(u)][1]))
    /\ IsList200(last) => OnlyKeysOf(last.user, last.resp[1].body.keys)
    /\ (last.op = "usage" /\ last.resp # <<>>) => OnlyEventsOf(last.user, last.resp[1])
    /\ (gw.pc = "done" /\ gw.endpoint = "usage.get" /\ gw.verified) =>
          OnlyEventsOf(gw.userId[1], gw.resp[1])

\* a principal's credentials are cached and its usage query has returned an
\* event, while the other principal has a credential and an event too
C28_Witness ==
    /\ gw.pc = "done" /\ gw.endpoint = "usage.get" /\ gw.verified
    /\ gw.resp[1].status = 200 /\ Len(gw.resp[1].body.data) = 1
    /\ \E row \in compute_usage : row.user_id # gw.userId
    /\ cache[cacheKey(gw.userId[1])] # <<>>
    /\ Len(JsonParse(cache[cacheKey(gw.userId[1])][1])) = 1
    /\ \E key \in api_keys : key.user_id # gw.userId[1]

----------------------------------------------------------------------------
(* Claims about the recording of gateway invocations *)

\* principal u's verified call of the RPC pass-through or of the swap proxy has
\* had its upstream response relayed
Relayed(u) ==
    /\ gw.pc = "done" /\ gw.verified /\ gw.userId = <<u>>
    /\ Mount(gw.endpoint) \in {"rpc", "0x"}
    /\ gw.got # <<>>

UsageCount(u) == Cardinality({row \in compute_usage : row.user_id = <<u>>})

\* C25: once a verified call of the RPC pass-through or of the swap proxy has
\* been relayed, a usage event of the calling principal is appended in the end:
\* the principal's events, n at the relay, become n + 1.
C25_ProxiedCallRecorded ==
    \A u \in Users : \A n \in 0..(MaxUsage - 1) :
        (Relayed(u) /\ UsageCount(u) = n) ~> (UsageCount(u) = n + 1)

====
